---- MODULE Spec2Model ----
(***************************************************************************)
(* Verification model of the Solarus hero state machine: the transition    *)
(* protocol (Hero::set_state), the concrete states of src/src/hero, the    *)
(* reference counting of carried items, and the suspension of the timers   *)
(* (PixelMovement, BackToSolidGroundState, Hookshot) against the simulated *)
(* clock of System.                                                        *)
(***************************************************************************)
EXTENDS Integers, Sequences, FiniteSets, TLC

VARIABLES
  hero,      \* the Hero context: current state pointer, suspended flag, movement...
  insts,     \* the State instances, by address
  item,      \* the CarriedItem object that the hero lifted last
  map,       \* the entities of the map that the hero states add or remove
  log,       \* the calls made by the last operation, in order
  handoffs,  \* what the last operation's stop() calls did with a carried item
  fatal,     \* TRUE once Debug::die / a failed Debug::check_assertion ended the program
  ticks,     \* System::ticks, the simulated clock
  ent,       \* the hero seen as a suspendable entity: its movement and its state's date
  obs,       \* what the last suspension of ent started from, for the checks
  hook       \* the hookshot entity and its sound date

hvars == <<hero, insts, item, map, log, handoffs, fatal>>
tvars == <<ticks, ent, obs, hook>>
vars == <<hero, insts, item, map, log, handoffs, fatal, ticks, ent, obs, hook>>

(***************************************************************************)
(* Bounds of the model.                                                    *)
(***************************************************************************)
MaxInstances == 4      \* addresses available for State instances
MaxExternalRefs == 1   \* holders of a carried item outside the hero and the map

\* The pointers to a carried item: nullptr, or the address of the item.
NULL == "nullptr"
ITEM == "item"
Ids == 1..MaxInstances

BEHAVIOR_THROW == "throw"
BEHAVIOR_DESTROY == "destroy"
BEHAVIOR_KEEP == "keep"
\* A value of the type CarriedItem::Behavior that is none of its enumerators.
BEHAVIOR_INVALID == "invalid"

LAYER_LOW == 0

\* The state classes. Those of src/src/hero, then those the spec names or needs.
SrcKinds == {"lifting", "jumping", "stream", "bow", "boomerang", "hookshot"}
OtherKinds == {"free", "carrying", "back to solid ground", "falling", "swimming"}
Kinds == SrcKinds \cup OtherKinds

NoInst == [kind |-> "none", alive |-> FALSE, item |-> NULL, snapping |-> FALSE]
NoItem == [refcount |-> 0, external |-> 0, thrown |-> FALSE,
           deleted |-> FALSE, suspended |-> FALSE, being_lifted |-> FALSE]

\* The whole program state as one value, threaded through the calls.
World == [hero |-> hero, insts |-> insts, item |-> item, map |-> map,
          log |-> <<>>, handoffs |-> <<>>, fatal |-> fatal, ret |-> 0]

\* Debug::die and a failed Debug::check_assertion end the program.
Die(w) == [w EXCEPT !.fatal = TRUE]

\* Appends a call to the log, with the kind of the instance that it is about,
\* what the call was given (arg), and the hero's current state at that instant.
LogArg(w, ev, inst, other, arg) ==
  [w EXCEPT !.log = Append(@, [ev |-> ev, inst |-> inst, other |-> other,
                                kind |-> w.insts[inst].kind, arg |-> arg,
                                cur |-> w.hero.state,
                                cur_alive |-> w.insts[w.hero.state].alive])]

Log(w, ev, inst, other) == LogArg(w, ev, inst, other, "")


(***************************************************************************)
(* The simulated clock and the dates that a suspension must shift.         *)
(***************************************************************************)
timestep == 10

\* System::ticks is a uint32_t: the model keeps ClockBits bits of it.
ClockBits == 10
ClockRange == 2 ^ ClockBits

MaxUpdates == 6        \* updates of the main loop in one behaviour of SpecSuspend
MaxLength == 2         \* translations in the trajectory of the pixel movement
MaxCalls == 4          \* calls of set_suspended in one behaviour of SpecDates

\* Unsigned arithmetic of uint32_t.
UAdd(a, b) == (a + b) % ClockRange
USub(a, b) == (a - b + ClockRange) % ClockRange

System_now == ticks
\* A clock that catches up with a frame that lasted two timesteps.
System_update_two_timesteps == UAdd(ticks, timestep + timestep)

System_update == UAdd(ticks, timestep)

\* Movement::set_suspended(): when_suspended is the date of the suspension.
Movement_set_suspended(m, suspended, now) ==
  [m EXCEPT !.suspended = suspended,
            !.when_suspended = IF suspended THEN now ELSE @]

PixelMovement_set_suspended(m, suspended, now) ==
  LET m0 == Movement_set_suspended(m, suspended, now) IN
  IF ~suspended /\ m0.when_suspended # 0
  THEN [m0 EXCEPT !.next_move_date = UAdd(@, USub(now, m0.when_suspended))]
  ELSE m0

\* PixelMovement::restart(), for a trajectory of the given length.
PixelMovement_restart(m, length, now) ==
  IF length = 0 THEN [m EXCEPT !.length = length, !.finished = TRUE]
  ELSE [m EXCEPT !.length = length, !.nb_steps_done = 0, !.finished = FALSE,
                 !.next_move_date = UAdd(now, m.delay)]

\* PixelMovement::make_next_step(), for a trajectory that does not loop.
PixelMovement_make_next_step(m) ==
  [m EXCEPT !.next_move_date = UAdd(@, m.delay),
            !.nb_steps_done = @ + 1,
            !.finished = (m.nb_steps_done + 1 = m.length)]

RECURSIVE PixelMovement_update(_, _)
PixelMovement_update(m, now) ==
  IF m.suspended THEN m
  ELSE IF now >= m.next_move_date /\ ~m.finished
  THEN PixelMovement_update(PixelMovement_make_next_step(m), now)
  ELSE m

\* BackToSolidGroundState::set_suspended(): the state remembers when it was
\* suspended and moves end_date by the duration of the suspension.
BackToSolidGroundState_set_suspended(e, suspended, now) ==
  IF suspended THEN [e EXCEPT !.state_when_suspended = now]
  ELSE [e EXCEPT !.end_date = UAdd(@, USub(now, e.state_when_suspended))]

\* Hero::set_suspended(): the state and the movement of the hero are told.
Entity_set_suspended(e, suspended, now) ==
  LET e0 == BackToSolidGroundState_set_suspended(e, suspended, now)
  IN [e0 EXCEPT !.suspended = suspended,
                !.movement = PixelMovement_set_suspended(e.movement, suspended, now)]

Entity_update(e, now) == [e EXCEPT !.movement = PixelMovement_update(e.movement, now)]

Delays == {timestep, 3 * timestep}
\* The hero exists from the first update on; the clock wraps around later.
StartTicks == {timestep, ClockRange - 2 * timestep}

NoEnt == [suspended |-> FALSE, end_date |-> 0, state_when_suspended |-> 0,
          movement |-> [suspended |-> FALSE, when_suspended |-> 0, next_move_date |-> 0,
                        delay |-> 0, length |-> 0, nb_steps_done |-> 0, finished |-> TRUE]]
NoObs == [updates |-> 0, resumed |-> FALSE, s |-> 0, D |-> 0,
          next_move_date |-> 0, end_date |-> 0]
NoHook == [suspended |-> FALSE, next_sound_date |-> 0, fired |-> FALSE, fired_at |-> 0,
           updates |-> 0, paused |-> 0, s |-> 0, left |-> 0, r |-> 0]

TimeIdle == ticks = 0 /\ ent = NoEnt /\ obs = NoObs /\ hook = NoHook

\* A state has just attached a pixel movement to the hero and set its end date.
SuspendInit ==
  /\ ticks \in StartTicks
  /\ \E delay \in Delays, length \in 0..MaxLength, end_delay \in Delays :
       ent = [NoEnt EXCEPT !.end_date = UAdd(ticks, end_delay),
                           !.movement = PixelMovement_restart(
                               [NoEnt.movement EXCEPT !.delay = delay], length, ticks)]
  /\ obs = NoObs
  /\ hook = NoHook

\* MainLoop::update(): the game updates its entities, then the clock advances.
MainLoopUpdate ==
  /\ obs.updates < MaxUpdates
  /\ ent' = Entity_update(ent, System_now)
  /\ ticks' = System_update
  /\ obs' = [obs EXCEPT !.updates = @ + 1, !.resumed = FALSE]
  /\ UNCHANGED <<hvars, hook>>

\* The game is suspended or resumed.
EntitySetSuspended(suspended) ==
  /\ suspended # ent.suspended
  /\ ent' = Entity_set_suspended(ent, suspended, System_now)
  /\ obs' = IF suspended
            THEN [obs EXCEPT !.resumed = FALSE, !.s = System_now,
                             !.next_move_date = ent.movement.next_move_date,
                             !.end_date = ent.end_date]
            ELSE [obs EXCEPT !.resumed = TRUE, !.D = USub(System_now, obs.s)]
  /\ UNCHANGED <<hvars, ticks, hook>>

(***************************************************************************)
(* The dates of a pickable treasure and of a crystal.                      *)
(***************************************************************************)
\* MapEntity::set_suspended(): when_suspended is the date of the suspension,
\* and 0 for an entity that was never suspended.
MapEntity_set_suspended(e, suspended, now) ==
  [e EXCEPT !.suspended = suspended,
            !.when_suspended = IF suspended THEN now ELSE @]

Pickable_set_suspended(p, suspended, now) ==
  LET p0 == MapEntity_set_suspended(p, suspended, now)
      shifted(date) == UAdd(now, USub(date, p0.when_suspended))
  IN IF suspended THEN p0
     ELSE [p0 EXCEPT
             !.allow_pick_date =
                IF ~p0.can_be_picked /\ p0.when_suspended # 0 THEN shifted(@) ELSE @,
             !.blink_date =
                IF p0.will_disappear /\ p0.when_suspended # 0 THEN shifted(@) ELSE @,
             !.disappear_date =
                IF p0.will_disappear /\ p0.when_suspended # 0 THEN shifted(@) ELSE @]

\* Pickable::update(): the dates are read by a pickable that is not suspended.
Pickable_update(p, now) ==
  IF p.suspended THEN p
  ELSE IF ~p.can_be_picked /\ now >= p.allow_pick_date
  THEN [p EXCEPT !.can_be_picked = TRUE]
  ELSE IF p.will_disappear
  THEN [p EXCEPT !.blinking = @ \/ now >= p.blink_date,
                 !.removed = now >= p.disappear_date]
  ELSE p

Crystal_set_suspended(c, suspended, now) ==
  LET c0 == MapEntity_set_suspended(c, suspended, now)
  IN IF ~suspended
     THEN [c0 EXCEPT !.next_possible_hit_date = UAdd(@, USub(now, c0.when_suspended))]
     ELSE c0

\* MainLoop::update(): the map updates its entities, then the clock advances.
DatesUpdate ==
  /\ obs.updates < MaxUpdates
  /\ ent' = [ent EXCEPT !.pickable = IF @.removed THEN @
                                     ELSE Pickable_update(@, System_now)]
  /\ ticks' = System_update
  /\ obs' = [obs EXCEPT !.updates = @ + 1]
  /\ UNCHANGED <<hvars, hook>>

\* MapEntities::set_suspended(): every entity of the map is told. The time
\* spent suspended is counted when a suspension ends.
DatesSetSuspended(suspended) ==
  /\ obs.calls < MaxCalls
  /\ ent' = [ent EXCEPT
               !.pickable = IF @.removed THEN @
                            ELSE Pickable_set_suspended(@, suspended, System_now),
               !.crystal = Crystal_set_suspended(@, suspended, System_now)]
  /\ obs' = IF suspended = ent.crystal.suspended
            THEN [obs EXCEPT !.calls = @ + 1, !.redundant = TRUE]
            ELSE IF suspended
            THEN [obs EXCEPT !.calls = @ + 1, !.s = System_now,
                             !.from_zero = @ \/ System_now = 0]
            ELSE [obs EXCEPT !.calls = @ + 1, !.resumed = TRUE,
                             !.total = UAdd(@, USub(System_now, obs.s))]
  /\ UNCHANGED <<hvars, ticks, hook>>

(***************************************************************************)
(* The hookshot and the date of its next sound.                            *)
(***************************************************************************)
SoundDelay == 200          \* the sound is due 200 ms after the start
PauseDuration == 500       \* the pause of the scenario
MaxHookshotUpdates == 80   \* updates of the main loop in one behaviour of SpecHookshot
MaxPauses == 2             \* suspensions in one behaviour of SpecHookshot

\* Hookshot::update(): the sound is played at the first update, of a hookshot
\* that is not suspended, at or after next_sound_date. Its first play is followed.
Hookshot_update(h, now) ==
  IF h.suspended THEN h
  ELSE IF ~h.fired /\ now >= h.next_sound_date
  THEN [h EXCEPT !.fired = TRUE, !.fired_at = now]
  ELSE h

\* Hookshot declares no set_suspended(): MapEntity::set_suspended() runs, which
\* has no access to the private next_sound_date.
Hookshot_set_suspended(h, suspended, now) == [h EXCEPT !.suspended = suspended]

HookshotInit ==
  /\ ticks = timestep
  /\ hook = [NoHook EXCEPT !.next_sound_date = UAdd(ticks, SoundDelay)]
  /\ ent = NoEnt
  /\ obs = NoObs

\* MainLoop::update() with a hookshot on the map.
HookshotMainLoopUpdate ==
  /\ hook.updates < MaxHookshotUpdates
  /\ hook' = [Hookshot_update(hook, System_now) EXCEPT !.updates = @ + 1]
  /\ ticks' = System_update
  /\ UNCHANGED <<hvars, ent, obs>>

\* The game is suspended or resumed while the hookshot is on the map.
HookshotSetSuspended(suspended) ==
  /\ suspended # hook.suspended
  /\ ~hook.fired
  /\ suspended => hook.paused < MaxPauses
  /\ hook' = LET h == Hookshot_set_suspended(hook, suspended, System_now) IN
             IF suspended
             THEN [h EXCEPT !.paused = @ + 1, !.s = System_now,
                            !.left = USub(hook.next_sound_date, System_now)]
             ELSE [h EXCEPT !.r = System_now]
  /\ UNCHANGED <<hvars, ticks, ent, obs>>

(***************************************************************************)
(* Reference counting and the map's entity list.                           *)
(***************************************************************************)
RefCountable_ref(w, it) == [w EXCEPT !.item.refcount = @ + 1]

\* unref(nullptr) does nothing; the object is deleted when its count reaches 0.
RefCountable_unref(w, it) ==
  IF it = NULL THEN w
  ELSE IF w.item.refcount = 0 THEN Die(w)
  ELSE [w EXCEPT !.item.refcount = @ - 1,
                 !.item.deleted = (w.item.refcount = 1)]

\* The map holds one reference on each entity of its list.
MapEntities_add_entity(w, it) ==
  RefCountable_ref([w EXCEPT !.map.has_item = TRUE], it)

CarriedItem_throw_item(w, it) ==
  [w EXCEPT !.item.thrown = TRUE, !.item.being_lifted = FALSE]

CarriedItem_set_suspended(w, it, suspended) ==
  [w EXCEPT !.item.suspended = suspended]

\* The lift of an item ends at some update, when the item is not suspended.
CarriedItem_update(w, it, lift_ends) ==
  IF lift_ends /\ ~w.item.suspended
  THEN [w EXCEPT !.item.being_lifted = FALSE]
  ELSE w

Hero_set_movement(w, m) == [w EXCEPT !.hero.movement = m]
Hero_clear_movement(w) == [w EXCEPT !.hero.movement = "none"]

(***************************************************************************)
(* What a state tells about the carried item.                              *)
(***************************************************************************)
JumpingState_get_previous_carried_item_behavior == BEHAVIOR_KEEP

\* The states that do not throw the item of their predecessor.
State_get_previous_carried_item_behavior(kind) ==
  CASE kind = "carrying" -> BEHAVIOR_KEEP
    [] kind = "falling" -> BEHAVIOR_DESTROY
    [] kind = "invalid policy" -> BEHAVIOR_INVALID
    [] OTHER -> BEHAVIOR_THROW

get_previous_carried_item_behavior(w, s) ==
  IF w.insts[s].kind = "jumping"
  THEN JumpingState_get_previous_carried_item_behavior
  ELSE State_get_previous_carried_item_behavior(w.insts[s].kind)

JumpingState_get_carried_item(w, s) == w.insts[s].item

\* Hero::get_carried_item() asks the current state; LiftingState does not
\* override State::get_carried_item().
Hero_get_carried_item(w) ==
  LET s == w.hero.state IN
  CASE w.insts[s].kind = "jumping" -> JumpingState_get_carried_item(w, s)
    [] w.insts[s].kind = "carrying" -> w.insts[s].item
    [] OTHER -> NULL

(***************************************************************************)
(* What the jumping state answers to the map and to the enemies.           *)
(***************************************************************************)
\* Who may attack the hero: nobody (nullptr) or an entity of the map.
Attackers == {NULL, "enemy"}

\* State::can_be_hurt(): the answer of the states that do not override it.
State_can_be_hurt(attacker) == TRUE

JumpingState_can_avoid_deep_water == TRUE
JumpingState_can_avoid_hole == TRUE
JumpingState_can_avoid_ice == TRUE
JumpingState_can_avoid_lava == TRUE
JumpingState_can_avoid_prickle == TRUE
JumpingState_can_avoid_teletransporter == TRUE

\* can_be_hurt() left as the base class has it.
JumpingState_can_be_hurt_not_overridden(attacker) == TRUE

JumpingState_can_be_hurt(attacker) == FALSE

\* The grounds and entities a state may declare it avoids.
Hazards == {"deep water", "hole", "ice", "lava", "prickle", "teletransporter"}

\* State::can_avoid_...(): the answer of the states that do not override it.
State_can_avoid(hazard) == FALSE

JumpingState_can_avoid(hazard) ==
  CASE hazard = "deep water" -> JumpingState_can_avoid_deep_water
    [] hazard = "hole" -> JumpingState_can_avoid_hole
    [] hazard = "ice" -> JumpingState_can_avoid_ice
    [] hazard = "lava" -> JumpingState_can_avoid_lava
    [] hazard = "prickle" -> JumpingState_can_avoid_prickle
    [] hazard = "teletransporter" -> JumpingState_can_avoid_teletransporter

\* What the hookshot state answers: the hazards of the jumping state, the
\* streams and the switches.
HookshotHazards == Hazards \cup {"stream", "switch"}

\* can_be_hurt() left as the base class has it.
HookshotState_can_be_hurt_not_overridden(attacker) == TRUE

HookshotState_can_be_hurt(attacker) == FALSE

HookshotState_can_avoid(hazard) ==
  CASE hazard = "deep water" -> TRUE
    [] hazard = "hole" -> TRUE
    [] hazard = "ice" -> TRUE
    [] hazard = "lava" -> TRUE
    [] hazard = "prickle" -> TRUE
    [] hazard = "teletransporter" -> TRUE
    [] hazard = "stream" -> TRUE
    [] hazard = "switch" -> TRUE

\* The virtual calls state->can_avoid_...() and state->can_be_hurt(attacker)
\* on the current state of the hero.
Hero_state_can_avoid(w, hazard) ==
  CASE w.insts[w.hero.state].kind = "jumping" /\ hazard \in Hazards ->
         JumpingState_can_avoid(hazard)
    [] w.insts[w.hero.state].kind = "hookshot" -> HookshotState_can_avoid(hazard)
    [] OTHER -> State_can_avoid(hazard)

Hero_state_can_be_hurt(w, attacker) ==
  CASE w.insts[w.hero.state].kind = "jumping" -> JumpingState_can_be_hurt(attacker)
    [] w.insts[w.hero.state].kind = "hookshot" -> HookshotState_can_be_hurt(attacker)
    [] OTHER -> State_can_be_hurt(attacker)

(***************************************************************************)
(* The predicates of a state, asked by name.                               *)
(***************************************************************************)
\* The queries: can_avoid_...() is named by what is avoided, the other
\* queries by their own name.
AvoidanceQueries == HookshotHazards \cup {"sensor", "explosion"}
Queries == AvoidanceQueries \cup {"can_start_sword", "can_start_item", "can_be_hurt",
                                   "can_pick_treasure", "is_hero_visible",
                                   "are_collisions_ignored"}

\* The queries each class declares and defines for itself.
Overrides(kind) ==
  CASE kind = "bow" -> {"stream"}
    [] kind = "boomerang" -> {"stream"}
    [] kind = "using item" -> {"stream"}
    [] kind = "lifting" -> {"can_be_hurt"}
    [] kind = "jumping" -> Hazards \cup {"stream", "sensor", "switch", "can_be_hurt"}
    [] kind = "hookshot" -> HookshotHazards \cup {"can_be_hurt", "can_pick_treasure"}
    [] OTHER -> {}

\* Hero::State: the answers a class inherits. The free state defines none of
\* its own.
State_answer(query, entity) ==
  CASE query \in AvoidanceQueries -> State_can_avoid(query)
    [] query = "can_be_hurt" -> State_can_be_hurt(entity)
    [] query = "are_collisions_ignored" -> FALSE
    [] OTHER -> TRUE

\* A bow state that also declares it cannot be hurt.
State_virtual_answer_bow_not_hurt(kind, query, entity) ==
  CASE kind = "bow" /\ query \in {"stream", "can_be_hurt"} -> query = "stream"
    [] kind = "boomerang" /\ query = "stream" -> TRUE
    [] kind = "lifting" /\ query = "can_be_hurt" -> TRUE
    [] kind = "jumping" /\ query \in Hazards -> JumpingState_can_avoid(query)
    [] kind = "jumping" /\ query \in {"stream", "switch"} -> TRUE
    [] kind = "jumping" /\ query = "sensor" -> FALSE
    [] kind = "jumping" /\ query = "can_be_hurt" -> JumpingState_can_be_hurt(entity)
    [] kind = "hookshot" /\ query \in HookshotHazards -> HookshotState_can_avoid(query)
    [] kind = "hookshot" /\ query = "can_be_hurt" -> HookshotState_can_be_hurt(entity)
    [] kind = "hookshot" /\ query = "can_pick_treasure" -> TRUE
    [] OTHER -> State_answer(query, entity)

\* The virtual call state->query(entity) on a state of the given class: the
\* definition of the class if it has one, the inherited one otherwise.
State_virtual_answer(kind, query, entity) ==
  CASE kind = "bow" /\ query = "stream" -> TRUE
    [] kind = "boomerang" /\ query = "stream" -> TRUE
    [] kind = "lifting" /\ query = "can_be_hurt" -> TRUE
    [] kind = "jumping" /\ query \in Hazards -> JumpingState_can_avoid(query)
    [] kind = "jumping" /\ query \in {"stream", "switch"} -> TRUE
    [] kind = "jumping" /\ query = "sensor" -> FALSE
    [] kind = "jumping" /\ query = "can_be_hurt" -> JumpingState_can_be_hurt(entity)
    [] kind = "hookshot" /\ query \in HookshotHazards -> HookshotState_can_avoid(query)
    [] kind = "hookshot" /\ query = "can_be_hurt" -> HookshotState_can_be_hurt(entity)
    [] kind = "hookshot" /\ query = "can_pick_treasure" -> TRUE
    [] OTHER -> State_answer(query, entity)

(***************************************************************************)
(* Constructors. The address of the new instance is left in w.ret.         *)
(***************************************************************************)
FreeId(w) ==
  CHOOSE i \in Ids : ~w.insts[i].alive /\ \A j \in Ids : ~w.insts[j].alive => i <= j

State_new(w, kind, it) ==
  LET i == FreeId(w) IN
  [w EXCEPT !.insts[i] = [kind |-> kind, alive |-> TRUE, item |-> it, snapping |-> FALSE],
            !.ret = i]

LiftingState_new(w, lifted_item) ==
  IF lifted_item = NULL THEN Die(w)
  ELSE RefCountable_ref(State_new(w, "lifting", lifted_item), lifted_item)

JumpingState_new(w) ==
  LET carried_item ==
        IF JumpingState_get_previous_carried_item_behavior = BEHAVIOR_KEEP
        THEN Hero_get_carried_item(w) ELSE NULL
  IN IF carried_item # NULL
     THEN RefCountable_ref(State_new(w, "jumping", carried_item), carried_item)
     ELSE State_new(w, "jumping", NULL)

CarryingState_new(w, carried_item) ==
  IF carried_item = NULL THEN Die(w)
  ELSE RefCountable_ref(State_new(w, "carrying", carried_item), carried_item)

(***************************************************************************)
(* stop() of each state.                                                   *)
(***************************************************************************)
\* throw_item() without the reset of the pointer.
LiftingState_throw_item_keeps_pointer(w, s) ==
  LET it == w.insts[s].item IN
  MapEntities_add_entity(CarriedItem_throw_item(w, it), it)

LiftingState_throw_item(w, s) ==
  LET it == w.insts[s].item IN
  [MapEntities_add_entity(CarriedItem_throw_item(w, it), it) EXCEPT !.insts[s].item = NULL]

LiftingState_destroy_lifted_item(w, s) ==
  [RefCountable_unref(w, w.insts[s].item) EXCEPT !.insts[s].item = NULL]

\* stop() without the assertion of the KEEP branch.
LiftingState_stop_no_assertion(w, s, next_state) ==
  IF w.insts[s].item # NULL
  THEN LET it == w.insts[s].item
           w0 == [w EXCEPT !.hero.lifted_item = NULL]
           b == get_previous_carried_item_behavior(w0, next_state)
           w1 == CASE b = BEHAVIOR_THROW -> LiftingState_throw_item(w0, s)
                   [] b = BEHAVIOR_DESTROY -> LiftingState_destroy_lifted_item(w0, s)
                   [] b = BEHAVIOR_KEEP ->
                        [RefCountable_unref(w0, it) EXCEPT !.insts[s].item = NULL]
                   [] OTHER -> w0
       IN IF w1.fatal THEN w1 ELSE [w1 EXCEPT !.hero.action_key_effect = "none"]
  ELSE w

\* stop() whose KEEP branch releases the reference and keeps the pointer.
LiftingState_stop_keeps_pointer(w, s, next_state) ==
  IF w.insts[s].item # NULL
  THEN LET it == w.insts[s].item
           w0 == [w EXCEPT !.hero.lifted_item = NULL]
           b == get_previous_carried_item_behavior(w0, next_state)
           w1 == CASE b = BEHAVIOR_THROW -> LiftingState_throw_item(w0, s)
                   [] b = BEHAVIOR_DESTROY -> LiftingState_destroy_lifted_item(w0, s)
                   [] b = BEHAVIOR_KEEP ->
                        IF w0.item.refcount > 1 THEN RefCountable_unref(w0, it) ELSE Die(w0)
                   [] OTHER -> w0
       IN IF w1.fatal THEN w1 ELSE [w1 EXCEPT !.hero.action_key_effect = "none"]
  ELSE w

LiftingState_stop(w, s, next_state) ==
  IF w.insts[s].item # NULL
  THEN LET it == w.insts[s].item
           w0 == [w EXCEPT !.hero.lifted_item = NULL]
           b == get_previous_carried_item_behavior(w0, next_state)
           w1 == CASE b = BEHAVIOR_THROW -> LiftingState_throw_item(w0, s)
                   [] b = BEHAVIOR_DESTROY -> LiftingState_destroy_lifted_item(w0, s)
                   [] b = BEHAVIOR_KEEP ->
                        IF w0.item.refcount > 1
                        THEN [RefCountable_unref(w0, it) EXCEPT !.insts[s].item = NULL]
                        ELSE Die(w0)
                   [] OTHER -> w0
       IN IF w1.fatal THEN w1 ELSE [w1 EXCEPT !.hero.action_key_effect = "none"]
  ELSE w

\* destroy_carried_item() without the release of the reference.
JumpingState_destroy_carried_item_no_unref(w, s) ==
  [w EXCEPT !.insts[s].item = NULL]

JumpingState_destroy_carried_item(w, s) ==
  [RefCountable_unref(w, w.insts[s].item) EXCEPT !.insts[s].item = NULL]

JumpingState_stop(w, s, next_state) ==
  LET w0 == Hero_clear_movement(w)
      it == w0.insts[s].item
      b == get_previous_carried_item_behavior(w0, next_state)
  IN IF it # NULL
     THEN CASE b = BEHAVIOR_THROW ->
                 [MapEntities_add_entity(CarriedItem_throw_item(w0, it), it)
                    EXCEPT !.insts[s].item = NULL, !.hero.lifted_item = NULL]
            [] b = BEHAVIOR_DESTROY ->
                 [JumpingState_destroy_carried_item(w0, s) EXCEPT !.hero.lifted_item = NULL]
            [] b = BEHAVIOR_KEEP ->
                 IF w0.item.refcount > 1
                 THEN [RefCountable_unref(w0, it) EXCEPT !.insts[s].item = NULL]
                 ELSE Die(w0)
            [] OTHER -> Die(w0)
     ELSE w0

\* The carrying state gives up its item as the policy of the next state says.
CarryingState_stop(w, s, next_state) ==
  LET it == w.insts[s].item
      b == get_previous_carried_item_behavior(w, next_state)
  IN IF it # NULL
     THEN CASE b = BEHAVIOR_THROW ->
                 [RefCountable_unref(MapEntities_add_entity(CarriedItem_throw_item(w, it), it), it)
                    EXCEPT !.insts[s].item = NULL, !.hero.lifted_item = NULL]
            [] b = BEHAVIOR_DESTROY ->
                 [RefCountable_unref(w, it) EXCEPT !.insts[s].item = NULL,
                                                   !.hero.lifted_item = NULL]
            [] b = BEHAVIOR_KEEP ->
                 IF w.item.refcount > 1
                 THEN [RefCountable_unref(w, it) EXCEPT !.insts[s].item = NULL]
                 ELSE Die(w)
            [] OTHER -> w
     ELSE w

\* stop() that leaves the hookshot on the map.
HookshotState_stop_keeps_hookshot(w, s, next_state) == w

HookshotState_stop(w, s, next_state) ==
  IF w.map.hookshot # "being_removed"
  THEN Hero_clear_movement([w EXCEPT !.map.hookshot = "being_removed"])
  ELSE w

StreamState_stop(w, s, next_state) == Hero_clear_movement(w)

BackToSolidGroundState_stop(w, s, next_state) == Hero_clear_movement(w)

\* The virtual call state->stop(next_state).
State_stop(w, s, next_state) ==
  LET k == w.insts[s].kind
      w0 == Log(w, "stop", s, next_state)
  IN CASE k = "lifting" -> LiftingState_stop(w0, s, next_state)
       [] k = "jumping" -> JumpingState_stop(w0, s, next_state)
       [] k = "carrying" -> CarryingState_stop(w0, s, next_state)
       [] k = "hookshot" -> HookshotState_stop(w0, s, next_state)
       [] k = "stream" -> StreamState_stop(w0, s, next_state)
       [] k = "back to solid ground" -> BackToSolidGroundState_stop(w0, s, next_state)
       [] OTHER -> w0

(***************************************************************************)
(* The transition protocol and start() of each state.                      *)
(***************************************************************************)
RECURSIVE Hero_set_state(_, _)
RECURSIVE State_start(_, _, _)
RECURSIVE BoomerangState_start(_, _, _)

MapEntities_is_boomerang_present(w) == w.map.boomerangs > 0

FreeState_new(w) == State_new(w, "free", NULL)

\* start() that calls its own stop() before it asks for the free state.
BoomerangState_start_stops_itself(w, s, previous_state) ==
  IF MapEntities_is_boomerang_present(w)
  THEN LET w1 == FreeState_new(w) IN Hero_set_state(State_stop(w1, s, w1.ret), w1.ret)
  ELSE [w EXCEPT !.hero.animation = "boomerang"]

\* start() that deletes the state instead of asking for the free state.
BoomerangState_start_deletes_itself(w, s, previous_state) ==
  IF MapEntities_is_boomerang_present(w)
  THEN [Log(w, "destroy", s, s) EXCEPT !.insts[s] = NoInst]
  ELSE [w EXCEPT !.hero.animation = "boomerang"]

\* start() that does not ask the map whether a boomerang is present.
BoomerangState_start_ignores_present(w, s, previous_state) ==
  [w EXCEPT !.hero.animation = "boomerang"]

BoomerangState_start(w, s, previous_state) ==
  IF MapEntities_is_boomerang_present(w)
  THEN LET w0 == FreeState_new(w) IN Hero_set_state(w0, w0.ret)
  ELSE [w EXCEPT !.hero.animation = "boomerang"]

LiftingState_start(w, s, previous_state) ==
  [w EXCEPT !.hero.action_key_effect = "throw",
            !.hero.animation = "lifting",
            !.hero.lifted_item = w.insts[s].item]

JumpingState_start(w, s, previous_state) ==
  LET w0 == IF w.insts[s].item = NULL
            THEN [w EXCEPT !.hero.animation = "jumping"]
            ELSE [w EXCEPT !.hero.animation = "walking_carrying",
                           !.hero.lifted_item = w.insts[s].item]
  IN Hero_set_movement(w0, "jump")

HookshotState_start(w, s, previous_state) ==
  [w EXCEPT !.hero.animation = "hookshot", !.map.hookshot = "flying"]

StreamState_start(w, s, previous_state) ==
  Hero_set_movement([w EXCEPT !.hero.animation = "stopped_normal",
                              !.insts[s].snapping = TRUE], "target")

BowState_start(w, s, previous_state) == [w EXCEPT !.hero.animation = "bow"]

FreeState_start(w, s, previous_state) == [w EXCEPT !.hero.animation = "stopped_normal"]

CarryingState_start(w, s, previous_state) ==
  [w EXCEPT !.hero.animation = "stopped_carrying",
            !.hero.action_key_effect = "throw",
            !.hero.lifted_item = w.insts[s].item]

\* start() of a state sets the animation of its mode.
FallingState_start(w, s, previous_state) == [w EXCEPT !.hero.animation = "falling"]

SwimmingState_start(w, s, previous_state) == [w EXCEPT !.hero.animation = "swimming"]

BackToSolidGroundState_start(w, s, previous_state) ==
  Hero_set_movement([w EXCEPT !.hero.animation = "stopped_normal"], "target")

\* The virtual call state->start(previous_state).
State_start(w, s, previous_state) ==
  LET k == w.insts[s].kind
      w0 == Log(w, "start", s, previous_state)
      w1 == CASE k = "boomerang" -> BoomerangState_start(w0, s, previous_state)
              [] k = "lifting" -> LiftingState_start(w0, s, previous_state)
              [] k = "jumping" -> JumpingState_start(w0, s, previous_state)
              [] k = "hookshot" -> HookshotState_start(w0, s, previous_state)
              [] k = "stream" -> StreamState_start(w0, s, previous_state)
              [] k = "bow" -> BowState_start(w0, s, previous_state)
              [] k = "free" -> FreeState_start(w0, s, previous_state)
              [] k = "carrying" -> CarryingState_start(w0, s, previous_state)
              [] k = "back to solid ground" -> BackToSolidGroundState_start(w0, s, previous_state)
              [] k = "falling" -> FallingState_start(w0, s, previous_state)
              [] k = "swimming" -> SwimmingState_start(w0, s, previous_state)
              [] OTHER -> w0
  IN IF w1.fatal THEN w1 ELSE Log(w1, "started", s, previous_state)

\* The destructor of a state, then the release of its memory.
State_destroy(w, s) ==
  LET k == w.insts[s].kind
      w0 == Log(w, "destroy", s, s)
      w1 == CASE k = "lifting" -> LiftingState_destroy_lifted_item(w0, s)
              [] k = "jumping" -> JumpingState_destroy_carried_item(w0, s)
              [] k = "carrying" -> [RefCountable_unref(w0, w0.insts[s].item)
                                      EXCEPT !.insts[s].item = NULL]
              [] OTHER -> w0
  IN [w1 EXCEPT !.insts[s] = NoInst]

\* What stop() of the state old did with the item it held: recorded for the checks.
Handoff(before, after, old, new) ==
  LET it == before.insts[old].item IN
  IF it = NULL THEN after
  ELSE [after EXCEPT !.handoffs = Append(@,
         [out |-> old, out_kind |-> before.insts[old].kind,
          next |-> new, next_kind |-> before.insts[new].kind,
          policy |-> get_previous_carried_item_behavior(before, new),
          item |-> it,
          external |-> before.item.external,
          being_lifted |-> before.item.being_lifted,
          refs_before |-> before.item.refcount,
          refs_after |-> after.item.refcount,
          in_map |-> after.map.has_item,
          thrown |-> after.item.thrown,
          out_ptr |-> after.insts[old].item,
          holders |-> {i \in Ids : after.insts[i].alive /\ after.insts[i].item = it},
          aborted |-> after.fatal])]

\* set_state() without the identity test of step 1.
Hero_set_state_no_identity_test(w, new_state) ==
  LET old == w.hero.state
      w0 == Log(w, "set_state", new_state, old)
      w1 == State_stop(w0, old, new_state)
      w2 == [w1 EXCEPT !.hero.state = new_state]
      w3 == State_start(w2, new_state, old)
  IN IF w.fatal THEN w
     ELSE IF w1.fatal THEN w1
     ELSE IF w3.fatal THEN w3
     ELSE IF new_state = old THEN w3
     ELSE State_destroy(w3, old)

\* Hero::set_state(new_state): the five steps of the transition protocol.
Hero_set_state(w, new_state) ==
  LET old == w.hero.state
      w0 == Log(w, "set_state", new_state, old)
  IN IF w.fatal THEN w
     ELSE IF new_state = old THEN w0
     ELSE LET w1 == Handoff(w0, State_stop(w0, old, new_state), old, new_state)
              w2 == [w1 EXCEPT !.hero.state = new_state]
              w3 == State_start(w2, new_state, old)
          IN IF w1.fatal THEN w1
             ELSE IF w3.fatal THEN w3
             ELSE State_destroy(w3, old)

(***************************************************************************)
(* update() of each state and the notifications.                           *)
(***************************************************************************)
Grounds == {"traversable", "hole", "shallow water"}
MaxLayer == 1          \* the layers of the map are LAYER_LOW..MaxLayer
Layers == LAYER_LOW..MaxLayer

\* Hero::start_state_from_ground(): the state that fits the ground under the hero.
Hero_start_state_from_ground(w, ground) ==
  LET it == Hero_get_carried_item(w)
      wl == LogArg(w, "start_state_from_ground", w.hero.state, w.hero.state, ground)
      w0 == CASE ground = "hole" -> State_new(wl, "falling", NULL)
              [] ground = "shallow water" -> State_new(wl, "swimming", NULL)
              [] it # NULL -> CarryingState_new(wl, it)
              [] OTHER -> FreeState_new(wl)
  IN Hero_set_state(w0, w0.ret)

LiftingState_update(w, s, lift_ends) ==
  LET it == w.insts[s].item
      w0 == CarriedItem_update(w, it, lift_ends)
  IN IF ~w0.hero.suspended /\ ~w0.item.being_lifted
     THEN LET w1 == CarryingState_new([w0 EXCEPT !.insts[s].item = NULL], it)
          IN Hero_set_state(w1, w1.ret)
     ELSE w0

\* update() that deletes the state before it asks for the next one.
JumpingState_update_deletes_first(w, s, movement_finished, ground) ==
  LET w0 == CarriedItem_update(w, w.insts[s].item, FALSE) IN
  IF movement_finished
  THEN Hero_start_state_from_ground(State_destroy(w0, s), ground)
  ELSE w0

\* update() that goes back to the free state when the jump is over.
JumpingState_update_sets_free(w, s, movement_finished, ground) ==
  LET it == w.insts[s].item
      w0 == IF it # NULL THEN CarriedItem_update(w, it, FALSE) ELSE w
  IN IF movement_finished
     THEN LET n == FreeState_new(w0) IN Hero_set_state(n, n.ret)
     ELSE w0

JumpingState_update(w, s, movement_finished, ground) ==
  LET it == w.insts[s].item
      w0 == IF it # NULL THEN CarriedItem_update(w, it, FALSE) ELSE w
  IN IF movement_finished THEN Hero_start_state_from_ground(w0, ground) ELSE w0

\* update() that installs the path movement and stays in the snapping phase.
StreamState_update_keeps_snapping(w, s, movement_finished) ==
  IF w.hero.suspended THEN w
  ELSE IF w.insts[s].snapping /\ movement_finished
  THEN Hero_set_movement(Hero_clear_movement(w), "path")
  ELSE LET w0 == IF movement_finished \/ ~w.hero.on_stream
                 THEN LET n == FreeState_new(w) IN Hero_set_state(n, n.ret)
                 ELSE w
       IN [w0 EXCEPT !.hero.on_stream = FALSE]

\* update() that does not ask whether the game is suspended.
StreamState_update_ignores_suspension(w, s, movement_finished) ==
  IF w.insts[s].snapping /\ movement_finished
  THEN Hero_set_movement(Hero_clear_movement([w EXCEPT !.insts[s].snapping = FALSE]), "path")
  ELSE LET w0 == IF movement_finished \/ ~w.hero.on_stream
                 THEN LET n == FreeState_new(w) IN Hero_set_state(n, n.ret)
                 ELSE w
       IN [w0 EXCEPT !.hero.on_stream = FALSE]

StreamState_update(w, s, movement_finished) ==
  IF w.hero.suspended THEN w
  ELSE IF w.insts[s].snapping /\ movement_finished
  THEN Hero_set_movement(Hero_clear_movement([w EXCEPT !.insts[s].snapping = FALSE]), "path")
  ELSE LET w0 == IF movement_finished \/ ~w.hero.on_stream
                 THEN LET n == FreeState_new(w) IN Hero_set_state(n, n.ret)
                 ELSE w
       IN [w0 EXCEPT !.hero.on_stream = FALSE]

\* The arrow that the bow adds to the map is not followed.
BowState_update(w, s, animation_finished) ==
  IF animation_finished
  THEN LET w0 == FreeState_new(w)
       IN Hero_set_state(w0, w0.ret)
  ELSE w

\* The 8-directions of the commands (-1: no direction is pressed) and the
\* directions of the sprites of the hero.
WantedDirections8 == -1..7
AnimationDirections == 0..3

\* A throw that follows the direction pressed whenever there is one.
BoomerangState_update_direction8_as_pressed(direction_pressed8, wanted_direction8, animation_direction) ==
  LET pressed == IF direction_pressed8 = -1 THEN wanted_direction8 ELSE direction_pressed8
  IN IF pressed = -1 THEN animation_direction * 2 ELSE pressed

\* The direction that update() gives to the boomerang, from the direction
\* recorded by start(), the one pressed now and the direction of the sprites.
BoomerangState_update_direction8(direction_pressed8, wanted_direction8, animation_direction) ==
  LET pressed == IF direction_pressed8 = -1 THEN wanted_direction8 ELSE direction_pressed8
  IN IF pressed = -1 \/ pressed % 2 = 0 THEN animation_direction * 2 ELSE pressed

BoomerangState_update(w, s, animation_finished) ==
  IF animation_finished
  THEN LET w0 == FreeState_new([w EXCEPT !.map.boomerangs = @ + 1])
       IN Hero_set_state(w0, w0.ret)
  ELSE w

\* What the map answers to finish_movement(), as the argument of its log entry.
MapAnswer(has_empty_ground, collision_below) ==
  IF has_empty_ground
  THEN (IF collision_below THEN "empty ground, obstacle below" ELSE "empty ground, free below")
  ELSE (IF collision_below THEN "solid ground, obstacle below" ELSE "solid ground, free below")

\* finish_movement() that tries the layer below from any layer.
HookshotState_finish_movement_any_layer(w, s, has_empty_ground, collision_below, ground) ==
  LET wl == LogArg(w, "finish_movement", s, s, MapAnswer(has_empty_ground, collision_below)) IN
  IF ~has_empty_ground
  THEN Hero_start_state_from_ground(wl, ground)
  ELSE IF ~collision_below
  THEN Hero_start_state_from_ground([wl EXCEPT !.hero.layer = @ - 1], ground)
  ELSE LET w0 == State_new(wl, "back to solid ground", NULL)
       IN Hero_set_state(w0, w0.ret)

HookshotState_finish_movement(w, s, has_empty_ground, collision_below, ground) ==
  LET wl == LogArg(w, "finish_movement", s, s, MapAnswer(has_empty_ground, collision_below)) IN
  IF wl.hero.layer = LAYER_LOW \/ ~has_empty_ground
  THEN Hero_start_state_from_ground(wl, ground)
  ELSE IF ~collision_below
  THEN Hero_start_state_from_ground([wl EXCEPT !.hero.layer = @ - 1], ground)
  ELSE LET w0 == State_new(wl, "back to solid ground", NULL)
       IN Hero_set_state(w0, w0.ret)

HookshotState_notify_obstacle_reached(w, s, has_empty_ground, collision_below, ground) ==
  HookshotState_finish_movement(w, s, has_empty_ground, collision_below, ground)

\* The virtual call state->update(). The inputs are what the collaborators
\* of the state answer at this tick.
State_update(w, lift_ends, finished, ground) ==
  LET s == w.hero.state
      k == w.insts[s].kind
      wl == LogArg(w, "update", s, s, IF k \notin {"jumping", "stream", "bow", "boomerang",
                                                    "back to solid ground"} THEN ""
                                      ELSE IF finished THEN "finished" ELSE "running")
  IN CASE k = "lifting" -> LiftingState_update(wl, s, lift_ends)
       [] k = "jumping" -> JumpingState_update(wl, s, finished, ground)
       [] k = "stream" -> StreamState_update(wl, s, finished)
       [] k = "bow" -> BowState_update(wl, s, finished)
       [] k = "boomerang" -> BoomerangState_update(wl, s, finished)
       [] k = "back to solid ground" ->
            IF finished THEN LET n == FreeState_new(wl) IN Hero_set_state(n, n.ret) ELSE wl
       [] OTHER -> wl

\* The virtual call state->set_suspended(suspended).
LiftingState_set_suspended(w, s, suspended) ==
  IF w.insts[s].item # NULL
  THEN CarriedItem_set_suspended(w, w.insts[s].item, suspended)
  ELSE w

\* set_suspended() that keeps the notification for the state.
JumpingState_set_suspended_state_only(w, s, suspended) == w

JumpingState_set_suspended(w, s, suspended) ==
  IF w.insts[s].item # NULL
  THEN CarriedItem_set_suspended(w, w.insts[s].item, suspended)
  ELSE w

Hero_set_suspended(w, suspended) ==
  LET s == w.hero.state
      k == w.insts[s].kind
      w0 == [w EXCEPT !.hero.suspended = suspended]
  IN CASE k = "lifting" -> LiftingState_set_suspended(w0, s, suspended)
       [] k = "jumping" -> JumpingState_set_suspended(w0, s, suspended)
       [] k = "carrying" -> CarriedItem_set_suspended(w0, w0.insts[s].item, suspended)
       [] OTHER -> w0

(***************************************************************************)
(* The operations on the hero.                                             *)
(***************************************************************************)
\* The address of a State instance carries no information: once an operation
\* is over, the address of the current state and the first address are
\* exchanged, in the memory and in the records of the operation.
Renamed(c, i) == IF i = c THEN 1 ELSE IF i = 1 THEN c ELSE i

Canonical(r) ==
  LET c == r.hero.state IN
  IF c = 1 THEN r
  ELSE [r EXCEPT
         !.hero.state = 1,
         !.insts = [@ EXCEPT ![1] = r.insts[c], ![c] = r.insts[1]],
         !.log = [k \in DOMAIN @ |->
                   [@[k] EXCEPT !.inst = Renamed(c, @), !.other = Renamed(c, @),
                                !.cur = Renamed(c, @)]],
         !.handoffs = [k \in DOMAIN @ |->
                        [@[k] EXCEPT !.out = Renamed(c, @), !.next = Renamed(c, @),
                                     !.holders = {Renamed(c, i) : i \in @}]]]

\* The result of an operation becomes the state of the program.
Commit(r) ==
  \E q \in {Canonical(r)} :
    /\ hero' = [q.hero EXCEPT !.on_stream_refreshed = @ /\ q.insts[1].kind = "stream"]
    /\ insts' = q.insts
    /\ item' = q.item
    /\ map' = q.map
    /\ log' = q.log
    /\ handoffs' = q.handoffs
    /\ fatal' = q.fatal

\* The hero lifts a new item, which ext others hold:
\* hero.set_state(new LiftingState(hero, item)). The hero lifts nothing while
\* a state holds an item; the item lifted before is no longer followed.
StartLifting(ext) ==
  /\ ~fatal
  /\ \A i \in Ids : insts[i].item = NULL
  /\ LET w0 == [World EXCEPT !.item = [NoItem EXCEPT !.refcount = ext, !.external = ext,
                                                      !.being_lifted = TRUE],
                             !.map.has_item = FALSE,
                             !.hero.lifted_item = NULL]
         w1 == LiftingState_new(w0, ITEM)
     IN Commit(Hero_set_state(w1, w1.ret))
  /\ UNCHANGED tvars

\* The kinds of state that the game logic starts with hero.set_state(new ...).
RequestedKinds == {"free", "jumping", "stream", "bow", "boomerang", "hookshot",
                   "falling", "back to solid ground"}

StartState(kind) ==
  /\ ~fatal
  /\ LET w1 == IF kind = "jumping" THEN JumpingState_new(World)
               ELSE State_new(World, kind, NULL)
     IN Commit(Hero_set_state(w1, w1.ret))
  /\ UNCHANGED tvars

\* hero.set_state(state) with the state that is already the current one.
SetSameState ==
  /\ ~fatal
  /\ Commit(Hero_set_state(World, hero.state))
  /\ UNCHANGED tvars

\* The states whose update() asks the movement or the animation whether it
\* is finished.
ReadsMovement == {"jumping", "stream", "bow", "boomerang", "back to solid ground"}

\* One update of the hero. Movements and animations do not progress while
\* the hero is suspended. An input that the current state does not read is
\* given one value only.
Update(lift_ends, progress, ground) ==
  /\ ~fatal
  /\ lift_ends => insts[hero.state].kind = "lifting"
  /\ progress => insts[hero.state].kind \in ReadsMovement /\ ~hero.suspended
  /\ ground # "traversable" => insts[hero.state].kind = "jumping" /\ progress
  /\ LET r == State_update(World, lift_ends, progress /\ ~hero.suspended, ground)
     IN Commit([r EXCEPT !.hero.on_stream_refreshed = hero.suspended /\ @])
  /\ UNCHANGED tvars

\* The movement of the hero was stopped by an obstacle.
NotifyObstacleReached(has_empty_ground, collision_below, ground) ==
  /\ ~fatal
  /\ insts[hero.state].kind = "hookshot"
  /\ ~hero.suspended
  /\ Commit(HookshotState_notify_obstacle_reached(World, hero.state,
                has_empty_ground, collision_below, ground))
  /\ UNCHANGED tvars

\* The hookshot comes back to the hero: it removes itself from the map and
\* the hero restarts from the ground.
HookshotReturns(ground) ==
  /\ ~fatal
  /\ insts[hero.state].kind = "hookshot"
  /\ ~hero.suspended
  /\ map.hookshot = "flying"
  /\ Commit(Hero_start_state_from_ground(
              Hero_clear_movement([World EXCEPT !.map.hookshot = "being_removed"]), ground))
  /\ UNCHANGED tvars

\* The game is suspended or resumed.
SetSuspended(suspended) ==
  /\ ~fatal
  /\ suspended # hero.suspended
  /\ Commit(Hero_set_suspended(World, suspended))
  /\ UNCHANGED tvars

\* A stream under the hero tells it at each tick.
NotifyOnStream ==
  /\ ~fatal
  /\ insts[hero.state].kind = "stream"
  /\ ~(hero.on_stream /\ hero.on_stream_refreshed)
  /\ Commit([World EXCEPT !.hero.on_stream = TRUE, !.hero.on_stream_refreshed = TRUE])
  /\ UNCHANGED tvars

\* The map removes an entity of its list.
MapRemoves(what) ==
  /\ ~fatal
  /\ CASE what = "boomerang" ->
            map.boomerangs > 0 /\ Commit([World EXCEPT !.map.boomerangs = @ - 1])
       [] what = "hookshot" ->
            map.hookshot = "being_removed" /\ Commit([World EXCEPT !.map.hookshot = "none"])
  /\ UNCHANGED tvars

\* The map removes the thrown item of its list and gives up its reference.
MapRemovesItem ==
  /\ ~fatal
  /\ map.has_item
  /\ Commit(RefCountable_unref([World EXCEPT !.map.has_item = FALSE], ITEM))
  /\ UNCHANGED tvars

HeroInit ==
  /\ \E layer \in Layers :
       hero = [state |-> 1, suspended |-> FALSE, movement |-> "none", lifted_item |-> NULL,
               action_key_effect |-> "none", on_stream |-> FALSE, layer |-> layer,
               pause_allowed |-> TRUE, on_stream_refreshed |-> FALSE,
               animation |-> "stopped_normal"]
  /\ insts = [i \in Ids |-> IF i = 1
                            THEN [kind |-> "free", alive |-> TRUE, item |-> NULL,
                                  snapping |-> FALSE]
                            ELSE NoInst]
  /\ item = NoItem
  /\ map = [has_item |-> FALSE, boomerangs |-> 0, hookshot |-> "none"]
  /\ log = <<>>
  /\ handoffs = <<>>
  /\ fatal = FALSE

Init == HeroInit /\ TimeIdle

Next ==
  \/ \E ext \in 0..MaxExternalRefs : StartLifting(ext)
  \/ \E kind \in RequestedKinds : StartState(kind)
  \/ SetSameState
  \/ \E lift_ends \in BOOLEAN, progress \in BOOLEAN, ground \in Grounds :
       Update(lift_ends, progress, ground)
  \/ \E e \in BOOLEAN, c \in BOOLEAN, ground \in Grounds : NotifyObstacleReached(e, c, ground)
  \/ \E ground \in Grounds : HookshotReturns(ground)
  \/ \E b \in BOOLEAN : SetSuspended(b)
  \/ NotifyOnStream
  \/ \E what \in {"boomerang", "hookshot"} : MapRemoves(what)
  \/ MapRemovesItem

Spec == Init /\ [][Next]_vars

HeroIdle ==
  /\ hero = [state |-> 1, suspended |-> FALSE, movement |-> "none", lifted_item |-> NULL,
             action_key_effect |-> "none", on_stream |-> FALSE, layer |-> LAYER_LOW,
             pause_allowed |-> TRUE, on_stream_refreshed |-> FALSE,
             animation |-> "stopped_normal"]
  /\ insts = [i \in Ids |-> IF i = 1
                            THEN [kind |-> "free", alive |-> TRUE, item |-> NULL,
                                  snapping |-> FALSE]
                            ELSE NoInst]
  /\ item = NoItem
  /\ map = [has_item |-> FALSE, boomerangs |-> 0, hookshot |-> "none"]
  /\ log = <<>>
  /\ handoffs = <<>>
  /\ fatal = FALSE

NextSuspend ==
  \/ MainLoopUpdate
  \/ \E b \in BOOLEAN : EntitySetSuspended(b)

InitSuspend == HeroIdle /\ SuspendInit

SpecSuspend == InitSuspend /\ [][NextSuspend]_vars

NextHookshot ==
  \/ HookshotMainLoopUpdate
  \/ \E b \in BOOLEAN : HookshotSetSuspended(b)

InitHookshot == HeroIdle /\ HookshotInit

SpecHookshot == InitHookshot /\ [][NextHookshot]_vars

\* stop() applied to what it may be given: a state that holds the item or
\* not, an item that others hold or not, a successor of each policy that has
\* taken its reference or not.
NextKinds == {"free", "falling", "carrying", "jumping", "invalid policy"}

InitStop ==
  /\ \E k \in {"lifting", "jumping", "carrying"}, held \in BOOLEAN, taken \in BOOLEAN,
        ext \in 0..MaxExternalRefs, nk \in NextKinds :
       /\ k = "carrying" => held
       /\ insts = [i \in Ids |->
                     CASE i = 1 -> [kind |-> k, alive |-> TRUE, snapping |-> FALSE,
                                    item |-> IF held THEN ITEM ELSE NULL]
                       [] i = 2 -> [kind |-> nk, alive |-> TRUE, snapping |-> FALSE,
                                    item |-> IF taken THEN ITEM ELSE NULL]
                       [] OTHER -> NoInst]
       /\ item = [NoItem EXCEPT !.external = ext,
                                 !.refcount = ext + (IF held THEN 1 ELSE 0)
                                                  + (IF taken THEN 1 ELSE 0),
                                 !.being_lifted = (k = "lifting")]
  /\ hero = [state |-> 1, suspended |-> FALSE, movement |-> "none", lifted_item |-> NULL,
             action_key_effect |-> "none", on_stream |-> FALSE, layer |-> LAYER_LOW,
             pause_allowed |-> TRUE, on_stream_refreshed |-> FALSE,
             animation |-> "stopped_normal"]
  /\ map = [has_item |-> FALSE, boomerangs |-> 0, hookshot |-> "none"]
  /\ log = <<>>
  /\ handoffs = <<>>
  /\ fatal = FALSE
  /\ TimeIdle

\* hero.set_state(next) with the successor that was built.
SetNextState ==
  /\ log = <<>>
  /\ insts[2].alive
  /\ Commit(Hero_set_state(World, 2))
  /\ UNCHANGED tvars

SpecStop == InitStop /\ [][SetNextState]_vars

\* stop() of the hookshot state applied to what it may be given: a hookshot
\* that flies or is already being removed, a hero with or without a
\* movement, on each layer, a game suspended or not, and each successor.
HookshotNextKinds == {"free", "falling", "swimming", "jumping", "stream", "bow",
                      "boomerang", "hookshot", "back to solid ground"}

InitHookshotStop ==
  /\ \E status \in {"flying", "being_removed"}, movement \in {"none", "hookshot"},
        suspended \in BOOLEAN, layer \in Layers, nk \in HookshotNextKinds :
       /\ hero = [state |-> 1, suspended |-> suspended, movement |-> movement,
                  lifted_item |-> NULL, action_key_effect |-> "none", on_stream |-> FALSE,
                  layer |-> layer, pause_allowed |-> TRUE,
                  on_stream_refreshed |-> FALSE, animation |-> "hookshot"]
       /\ insts = [i \in Ids |->
                     CASE i = 1 -> [kind |-> "hookshot", alive |-> TRUE, snapping |-> FALSE,
                                    item |-> NULL]
                       [] i = 2 -> [kind |-> nk, alive |-> TRUE, snapping |-> FALSE,
                                    item |-> NULL]
                       [] OTHER -> NoInst]
       /\ map = [has_item |-> FALSE, boomerangs |-> 0, hookshot |-> status]
  /\ item = NoItem
  /\ log = <<>>
  /\ handoffs = <<>>
  /\ fatal = FALSE
  /\ TimeIdle

SpecHookshotStop == InitHookshotStop /\ [][SetNextState]_vars

\* A state of each class is asked one query. UsingItemState::can_avoid_stream
\* is declared but its body is not known, so it is not asked.
PredicateKinds == {"free", "bow", "boomerang", "using item", "lifting", "jumping", "hookshot"}

InitPredicates ==
  /\ hero = [state |-> 1, suspended |-> FALSE, movement |-> "none", lifted_item |-> NULL,
             action_key_effect |-> "none", on_stream |-> FALSE, layer |-> LAYER_LOW,
             pause_allowed |-> TRUE, on_stream_refreshed |-> FALSE,
             animation |-> "stopped_normal"]
  /\ \E k \in PredicateKinds :
       insts = [i \in Ids |-> IF i = 1
                              THEN [kind |-> k, alive |-> TRUE, item |-> NULL,
                                    snapping |-> FALSE]
                              ELSE NoInst]
  /\ item = NoItem
  /\ map = [has_item |-> FALSE, boomerangs |-> 0, hookshot |-> "none"]
  /\ log = <<>>
  /\ handoffs = <<>>
  /\ fatal = FALSE
  /\ TimeIdle

AskState(query, entity) ==
  /\ log = <<>>
  /\ ~(insts[hero.state].kind = "using item" /\ query = "stream")
  /\ log' = <<[ev |-> "ask", kind |-> insts[hero.state].kind, arg |-> query,
               entity |-> entity,
               answer |-> State_virtual_answer(insts[hero.state].kind, query, entity)]>>
  /\ UNCHANGED <<hero, insts, item, map, handoffs, fatal>>
  /\ UNCHANGED tvars

NextPredicates == \E query \in Queries, entity \in Attackers : AskState(query, entity)

SpecPredicates == InitPredicates /\ [][NextPredicates]_vars

\* A boomerang state was started with no boomerang on the map: start() has
\* recorded the direction pressed at that moment. One update follows, with
\* the preparing animation finished or not.
InitBoomerang ==
  /\ \E pressed \in WantedDirections8, facing \in AnimationDirections :
       /\ hero = [state |-> 1, suspended |-> FALSE, movement |-> "none",
                  lifted_item |-> NULL, action_key_effect |-> "none", on_stream |-> FALSE,
                  layer |-> LAYER_LOW, pause_allowed |-> TRUE,
                  on_stream_refreshed |-> FALSE, animation |-> "boomerang",
                  animation_direction |-> facing]
       /\ insts = [i \in Ids |-> IF i = 1
                                  THEN [kind |-> "boomerang", alive |-> TRUE, item |-> NULL,
                                        snapping |-> FALSE, direction_pressed8 |-> pressed]
                                  ELSE NoInst]
  /\ item = NoItem
  /\ map = [has_item |-> FALSE, boomerangs |-> 0, hookshot |-> "none"]
  /\ log = <<>>
  /\ handoffs = <<>>
  /\ fatal = FALSE
  /\ TimeIdle

BoomerangUpdate(animation_finished, wanted_direction8) ==
  /\ log = <<>>
  /\ ~animation_finished => wanted_direction8 = -1
  /\ LET q == Canonical(State_update(World, FALSE, animation_finished, "traversable"))
         thrown == [ev |-> "add_entity", kind |-> "boomerang",
                    direction_pressed8 |-> insts[hero.state].direction_pressed8,
                    wanted_direction8 |-> wanted_direction8,
                    animation_direction |-> hero.animation_direction,
                    direction8 |-> BoomerangState_update_direction8(
                                     insts[hero.state].direction_pressed8,
                                     wanted_direction8, hero.animation_direction)]
     IN /\ hero' = q.hero /\ insts' = q.insts /\ item' = q.item /\ map' = q.map
        /\ handoffs' = q.handoffs /\ fatal' = q.fatal
        /\ log' = IF animation_finished THEN Append(q.log, thrown) ELSE q.log
  /\ UNCHANGED tvars

NextBoomerang ==
  \E animation_finished \in BOOLEAN, wanted_direction8 \in WantedDirections8 :
    BoomerangUpdate(animation_finished, wanted_direction8)

SpecBoomerang == InitBoomerang /\ [][NextBoomerang]_vars

(***************************************************************************)
(* The life of a lifting or jumping state after its constructor: stop()    *)
(* then the destructor, or the destructor alone.                           *)
(***************************************************************************)
\* The successors, one of each policy and the jumping state.
LifeNextKinds == {"free", "falling", "carrying", "jumping"}

\* The state was constructed, with an item for the jumping state or without,
\* and the successor too, which has taken its reference or not.
InitLife ==
  /\ \E k \in {"lifting", "jumping"}, held \in BOOLEAN, taken \in BOOLEAN,
        ext \in 0..MaxExternalRefs, nk \in LifeNextKinds :
       /\ k = "lifting" => held
       /\ taken => nk \in {"carrying", "jumping"}
       /\ insts = [i \in Ids |->
                     CASE i = 1 -> [kind |-> k, alive |-> TRUE, snapping |-> FALSE,
                                    item |-> IF held THEN ITEM ELSE NULL]
                       [] i = 2 -> [kind |-> nk, alive |-> TRUE, snapping |-> FALSE,
                                    item |-> IF taken THEN ITEM ELSE NULL]
                       [] OTHER -> NoInst]
       /\ item = [NoItem EXCEPT !.external = ext,
                                 !.refcount = ext + (IF held THEN 1 ELSE 0)
                                                  + (IF taken THEN 1 ELSE 0),
                                 !.being_lifted = (k = "lifting")]
       /\ obs = [held |-> held, stopped |-> FALSE, destroyed |-> FALSE, released |-> 0,
                 out_ptr |-> IF held THEN ITEM ELSE NULL]
  /\ hero = [state |-> 1, suspended |-> FALSE, movement |-> "none", lifted_item |-> NULL,
             action_key_effect |-> "none", on_stream |-> FALSE, layer |-> LAYER_LOW,
             pause_allowed |-> TRUE, on_stream_refreshed |-> FALSE,
             animation |-> "stopped_normal"]
  /\ map = [has_item |-> FALSE, boomerangs |-> 0, hookshot |-> "none"]
  /\ log = <<>>
  /\ handoffs = <<>>
  /\ fatal = FALSE
  /\ ticks = 0 /\ ent = NoEnt /\ hook = NoHook

\* The references that the calls of r gave up: the count went from that of
\* World to that of r, and the map took one if it received the item.
Released(r) ==
  item.refcount + (IF r.map.has_item /\ ~map.has_item THEN 1 ELSE 0) - r.item.refcount

\* state->stop(next_state), as the first step of a transition.
LifeStop ==
  /\ ~fatal /\ ~obs.stopped /\ ~obs.destroyed
  /\ \E r \in {State_stop(World, 1, 2)} :
       /\ Commit(r)
       /\ obs' = [obs EXCEPT !.stopped = TRUE, !.released = @ + Released(r),
                             !.out_ptr = r.insts[1].item]
  /\ UNCHANGED <<ticks, ent, hook>>

\* delete state.
LifeDestroy ==
  /\ ~fatal /\ ~obs.destroyed
  /\ \E r \in {State_destroy(World, 1)} :
       /\ Commit(r)
       /\ obs' = [obs EXCEPT !.destroyed = TRUE, !.released = @ + Released(r)]
  /\ UNCHANGED <<ticks, ent, hook>>

NextLife ==
  \/ LifeStop
  \/ LifeDestroy

SpecLife == InitLife /\ [][NextLife]_vars

(***************************************************************************)
(* The dates of a pickable and of a crystal, under any sequence of calls   *)
(* of set_suspended and updates of the main loop.                          *)
(***************************************************************************)
\* A pickable and a crystal have just been created on the map. The delays of
\* the pickable (700, 8000 and 10000 ms in the constructor) are drawn from
\* Delays, which fit in the bits that the model keeps of the clock.
InitDates ==
  /\ HeroIdle
  /\ ticks \in StartTicks
  /\ \E falling \in BOOLEAN, will_disappear \in BOOLEAN,
        allow_delay \in Delays, blink_delay \in Delays :
       ent = [pickable |->
                [suspended |-> FALSE, when_suspended |-> 0, removed |-> FALSE,
                 blinking |-> FALSE, can_be_picked |-> ~falling,
                 will_disappear |-> will_disappear,
                 allow_pick_date |-> IF falling THEN UAdd(ticks, allow_delay) ELSE 0,
                 blink_date |-> IF will_disappear THEN UAdd(ticks, blink_delay) ELSE 0,
                 disappear_date |->
                   IF will_disappear THEN UAdd(ticks, blink_delay + timestep) ELSE 0],
              crystal |->
                [suspended |-> FALSE, when_suspended |-> 0,
                 next_possible_hit_date |-> ticks]]
  /\ obs = [updates |-> 0, calls |-> 0, s |-> 0, total |-> 0, redundant |-> FALSE, from_zero |-> FALSE,
            resumed |-> FALSE,
            allow_pick_date |-> ent.pickable.allow_pick_date,
            blink_date |-> ent.pickable.blink_date,
            disappear_date |-> ent.pickable.disappear_date,
            next_possible_hit_date |-> ent.crystal.next_possible_hit_date]
  /\ hook = NoHook

NextDates ==
  \/ DatesUpdate
  \/ \E b \in BOOLEAN : DatesSetSuspended(b)

SpecDates == InitDates /\ [][NextDates]_vars

(***************************************************************************)
(* MainLoop::run(): the iterations of the main loop against the real time. *)
(***************************************************************************)
HugeLag == 200             \* a lag that the loop does not try to catch up
MaxUpdatesPerFrame == 10   \* updates of one iteration at most
MaxFrames == 3             \* iterations of the main loop in one behaviour of SpecRun

\* The real time that passes between two iterations.
FrameDurations == {0, 4, timestep, 25, 130, HugeLag - 1, HugeLag, 300}

\* A lag that is caught up whatever its size.
MainLoop_lag_always_caught_up(lag) == lag

\* The lag after the measure of the last iteration: a huge lag is dropped.
MainLoop_lag_kept(lag) == IF lag >= HugeLag THEN timestep ELSE lag

\* The loop of updates: l.exit_at is the update that requests the exit, if any.
RECURSIVE MainLoop_update_loop(_)
MainLoop_update_loop(l) ==
  IF l.lag >= timestep /\ l.num_updates < MaxUpdatesPerFrame /\ ~l.exiting
  THEN MainLoop_update_loop([l EXCEPT !.lag = USub(@, timestep),
                                      !.num_updates = @ + 1,
                                      !.exiting = (l.num_updates + 1 = l.exit_at)])
  ELSE l

\* One iteration of the loop of run(), when the real time is real_time, the
\* input closes the window or not, and update number exit_at requests the exit.
MainLoop_run(m, real_time, window_closing, exit_at) ==
  LET now == USub(real_time, m.time_dropped)
      lag == UAdd(m.lag, USub(now, m.last_frame_date))
      huge == lag >= HugeLag
      time_dropped == IF huge THEN UAdd(m.time_dropped, USub(lag, timestep))
                      ELSE m.time_dropped
      l == MainLoop_update_loop([lag |-> MainLoop_lag_kept(lag), num_updates |-> 0,
                                 exiting |-> window_closing, exit_at |-> exit_at])
  IN [real_time |-> real_time,
      time_dropped |-> time_dropped,
      last_frame_date |-> IF huge THEN USub(real_time, time_dropped) ELSE now,
      lag |-> l.lag,
      exiting |-> l.exiting,
      huge |-> huge,
      window_closing |-> window_closing,
      num_updates |-> l.num_updates,
      drawn |-> l.num_updates > 0]

InitRun ==
  /\ HeroIdle
  /\ ticks \in StartTicks
  /\ ent = [real_time |-> ticks, time_dropped |-> 0, last_frame_date |-> ticks, lag |-> 0,
            exiting |-> FALSE, huge |-> FALSE, window_closing |-> FALSE,
            num_updates |-> 0, drawn |-> FALSE]
  /\ obs = [frames |-> 0]
  /\ hook = NoHook

\* One iteration of the loop: each update advances the simulated time.
RunIteration(duration, window_closing, exit_at) ==
  /\ ~ent.exiting
  /\ obs.frames < MaxFrames
  /\ ent' = MainLoop_run(ent, UAdd(ent.real_time, duration), window_closing, exit_at)
  /\ ticks' = UAdd(ticks, ent'.num_updates * timestep)
  /\ obs' = [frames |-> obs.frames + 1]
  /\ UNCHANGED <<hvars, hook>>

NextRun ==
  \E duration \in FrameDurations, window_closing \in BOOLEAN,
     exit_at \in 0..MaxUpdatesPerFrame :
    RunIteration(duration, window_closing, exit_at)

SpecRun == InitRun /\ [][NextRun]_vars

(***************************************************************************)
(* MainLoop::set_game() and the switch of game in MainLoop::update().      *)
(***************************************************************************)
MaxGames == 3          \* Game objects created in one behaviour of SpecGame
MaxSetGames == 3       \* calls of set_game in one behaviour of SpecGame
MaxGameUpdates == 3    \* updates of the main loop in one behaviour of SpecGame

\* The pointers to a Game: the addresses of the games, and nullptr.
NoGame == 0
Games == 1..MaxGames

MainLoop_set_game(m, g) ==
  LET m0 == IF m.game # NoGame THEN [m EXCEPT !.stops[m.game] = @ + 1] ELSE m
  IN [m0 EXCEPT !.next_game = g]

MainLoop_is_resetting(m) == m.game # NoGame /\ m.next_game = NoGame

MainLoop_get_game(m) == m.game

\* The end of MainLoop::update(): go to another game?
MainLoop_update(m) ==
  IF m.next_game # m.game
  THEN LET m0 == IF m.game # NoGame THEN [m EXCEPT !.deletes[m.game] = @ + 1] ELSE m
           m1 == [m0 EXCEPT !.game = m.next_game]
       IN IF m1.game # NoGame
          THEN [m1 EXCEPT !.starts[m1.game] = @ + 1]
          ELSE [m1 EXCEPT !.lua_restarts = @ + 1]
  ELSE m

\* The games that a caller can pass to set_game: no game, the current game,
\* or a game that it has just created.
GameArguments(m) ==
  {NoGame} \cup (IF m.game # NoGame THEN {m.game} ELSE {})
         \cup (IF m.created < MaxGames THEN {m.created + 1} ELSE {})

Created(m, g) == IF g \in Games /\ g > m.created THEN [m EXCEPT !.created = g] ELSE m

\* The program has started: no game, and none to start.
InitGame ==
  /\ HeroIdle
  /\ ticks = 0
  /\ ent = [game |-> NoGame, next_game |-> NoGame, created |-> 0, lua_restarts |-> 0,
            stops |-> [g \in Games |-> 0], starts |-> [g \in Games |-> 0],
            deletes |-> [g \in Games |-> 0]]
  /\ obs = [updates |-> 0, calls |-> 0, requested |-> {}, old |-> NoGame]
  /\ hook = NoHook

\* A script or an input event calls set_game(g) between two updates.
SetGame(g) ==
  /\ obs.calls < MaxSetGames
  /\ g \in GameArguments(ent)
  /\ ent' = MainLoop_set_game(Created(ent, g), g)
  /\ obs' = [obs EXCEPT !.calls = @ + 1, !.requested = @ \cup {g}, !.old = ent.game]
  /\ UNCHANGED <<hvars, ticks, hook>>

\* MainLoop::update(): the game and the scripts are updated, the simulated
\* time advances, then the game is switched if another one was asked for.
GameUpdate ==
  /\ obs.updates < MaxGameUpdates
  /\ ent' = MainLoop_update(ent)
  /\ ticks' = System_update
  /\ obs' = [obs EXCEPT !.updates = @ + 1, !.requested = {}, !.old = NoGame]
  /\ UNCHANGED <<hvars, hook>>

NextGame ==
  \/ \E g \in {NoGame} \cup Games : SetGame(g)
  \/ GameUpdate

SpecGame == InitGame /\ [][NextGame]_vars

(***************************************************************************)
(* PixelMovement::update(), one turn of its loop at a time.                *)
(***************************************************************************)
MaxPixelUpdates == 3   \* calls of update() in one behaviour of SpecPixel
StepBits == 3          \* the width of nb_steps_done in SpecPixel

\* The delays between two moves: set_delay() accepts 0.
PixelDelays == Delays \cup {0}

\* The condition of the loop of update().
PixelMovement_must_step(m, now) ==
  now >= m.next_move_date /\ ~m.finished /\ m.current

\* make_next_step(): the date of the next move, the iterator of the
\* trajectory, the end of a trajectory that does not loop, and the number of
\* steps done.
PixelMovement_step(m) ==
  [m EXCEPT !.next_move_date = UAdd(@, m.delay),
            !.nb_steps_done = (@ + 1) % (2 ^ StepBits),
            !.it = IF m.it + 1 = m.length THEN 0 ELSE m.it + 1,
            !.finished = (m.it + 1 = m.length /\ ~m.loop)]

\* A movement that restart() has just started, of an entity or of none.
InitPixel ==
  /\ HeroIdle
  /\ ticks \in StartTicks
  /\ \E delay \in PixelDelays, length \in 1..MaxLength, loop \in BOOLEAN,
        suspended \in BOOLEAN :
       ent = [suspended |-> suspended, when_suspended |-> IF suspended THEN ticks ELSE 0,
              finished |-> FALSE, loop |-> loop, delay |-> delay,
              length |-> length, it |-> 0, nb_steps_done |-> 0,
              next_move_date |-> UAdd(ticks, delay),
              current |-> TRUE, pc |-> "idle", now |-> 0]
  /\ obs = [updates |-> 0, stepped |-> FALSE, idle_call |-> FALSE]
  /\ hook = NoHook

\* update() is called: it returns at once when the movement is suspended.
PixelUpdateCall ==
  /\ ent.pc = "idle"
  /\ obs.updates < MaxPixelUpdates
  /\ ent' = IF ent.suspended THEN ent
            ELSE [ent EXCEPT !.pc = "loop", !.now = System_now]
  /\ obs' = [updates |-> obs.updates + 1, stepped |-> FALSE,
             idle_call |-> ent.suspended \/ ent.finished \/ ~ent.current]
  /\ UNCHANGED <<hvars, ticks, hook>>

\* One turn of the loop: a step, blocked by an obstacle or not. The entity
\* that is told of the obstacle may give up the movement.
PixelUpdateStep(blocked, gives_up) ==
  /\ ent.pc = "loop"
  /\ PixelMovement_must_step(ent, ent.now)
  /\ gives_up => blocked
  /\ ent' = [PixelMovement_step(ent) EXCEPT !.current = ~gives_up]
  /\ obs' = [obs EXCEPT !.stepped = TRUE]
  /\ UNCHANGED <<hvars, ticks, hook>>

\* The condition of the loop is false: update() returns, and the simulated
\* time advances before the next call.
PixelUpdateReturn ==
  /\ ent.pc = "loop"
  /\ ~PixelMovement_must_step(ent, ent.now)
  /\ ent' = [ent EXCEPT !.pc = "idle"]
  /\ ticks' = System_update
  /\ UNCHANGED <<hvars, obs, hook>>

\* set_suspended() between two calls of update().
PixelSetSuspended(suspended) ==
  /\ ent.pc = "idle"
  /\ suspended # ent.suspended
  /\ ent' = PixelMovement_set_suspended(ent, suspended, System_now)
  /\ UNCHANGED <<hvars, ticks, obs, hook>>

NextPixel ==
  \/ PixelUpdateCall
  \/ \E blocked \in BOOLEAN, gives_up \in BOOLEAN : PixelUpdateStep(blocked, gives_up)
  \/ PixelUpdateReturn
  \/ \E b \in BOOLEAN : PixelSetSuspended(b)

\* The program runs update() to its end: the loop goes on while its
\* condition holds and ends when it does not; an obstacle may block every
\* step without the entity giving up the movement.
SpecPixel ==
  /\ InitPixel
  /\ [][NextPixel]_vars
  /\ WF_vars(PixelUpdateStep(TRUE, FALSE))
  /\ WF_vars(PixelUpdateReturn)

(***************************************************************************)
(* FollowMovement: the reference on the entity followed.                   *)
(***************************************************************************)
NoEntity == 0          \* no entity followed: nullptr
MaxX == 2              \* the positions on the line are 0..MaxX
MaxFollowUpdates == 4  \* calls of update() in one behaviour of SpecFollow

\* The constructor: one reference on the entity followed, if there is one.
\* refcount is the reference count of the entity followed.
FollowMovement_new(entity_followed, x, ignore_obstacles, fx, refcount) ==
  [entity_followed |-> entity_followed, x |-> x, ignore_obstacles |-> ignore_obstacles,
   finished |-> FALSE, mx |-> 0, destroyed |-> FALSE,
   fx |-> fx, being_removed |-> FALSE,
   refcount |-> IF entity_followed # NoEntity THEN refcount + 1 ELSE refcount]

\* update(): collision is the answer of test_collision_with_obstacles().
FollowMovement_update(m, collision) ==
  IF m.entity_followed = NoEntity THEN [m EXCEPT !.finished = TRUE]
  ELSE IF m.being_removed
  THEN [m EXCEPT !.finished = TRUE, !.refcount = @ - 1, !.entity_followed = NoEntity]
  ELSE LET next_x == m.fx + m.x
           dx == next_x - m.mx IN
       IF ~m.ignore_obstacles
       THEN IF ~m.finished /\ dx # 0
            THEN IF ~collision THEN [m EXCEPT !.mx = next_x]
                 ELSE [m EXCEPT !.finished = TRUE]
            ELSE m
       ELSE [m EXCEPT !.mx = next_x]

\* The destructor: empty.
FollowMovement_delete(m) == [m EXCEPT !.destroyed = TRUE]

InitFollow ==
  /\ HeroIdle
  /\ ticks = 0
  /\ \E e \in {NoEntity, 1}, x \in 0..1, ignore_obstacles \in BOOLEAN, fx \in 0..MaxX :
       ent = FollowMovement_new(e, x, ignore_obstacles, fx, 1)
  /\ obs = [refs |-> ent.refcount - 1, unrefs |-> 0, updates |-> 0]
  /\ hook = NoHook

FollowUpdate(collision) ==
  /\ ~ent.destroyed
  /\ obs.updates < MaxFollowUpdates
  /\ ent' = FollowMovement_update(ent, collision)
  /\ obs' = [obs EXCEPT !.updates = @ + 1, !.unrefs = @ + (ent.refcount - ent'.refcount)]
  /\ UNCHANGED <<hvars, ticks, hook>>

\* The entity followed moves on the line.
FollowedMoves(fx) ==
  /\ ~ent.destroyed
  /\ ~ent.being_removed
  /\ fx # ent.fx
  /\ ent' = [ent EXCEPT !.fx = fx]
  /\ UNCHANGED <<hvars, ticks, obs, hook>>

\* The entity followed is removed from the map: it is being removed until
\* its last reference is given up.
FollowedRemoved ==
  /\ ~ent.destroyed
  /\ ~ent.being_removed
  /\ ent' = [ent EXCEPT !.being_removed = TRUE]
  /\ UNCHANGED <<hvars, ticks, obs, hook>>

\* The movement is destroyed: its entity was removed or took another movement.
FollowDelete ==
  /\ ~ent.destroyed
  /\ ent' = FollowMovement_delete(ent)
  /\ obs' = [obs EXCEPT !.unrefs = @ + (ent.refcount - ent'.refcount)]
  /\ UNCHANGED <<hvars, ticks, hook>>

NextFollow ==
  \/ \E collision \in BOOLEAN : FollowUpdate(collision)
  \/ \E fx \in 0..MaxX : FollowedMoves(fx)
  \/ FollowedRemoved
  \/ FollowDelete

SpecFollow == InitFollow /\ [][NextFollow]_vars

(***************************************************************************)
(* Pickable: the treasure given to the player.                             *)
(***************************************************************************)
MaxPickableUpdates == 3  \* updates in one behaviour of SpecPickable

\* The entities that overlap a pickable treasure.
Overlapping == {"hero", "boomerang", "hookshot", "enemy"}

\* try_give_item_to_player() that does not look at given_to_player.
Pickable_try_give_again(p, dialog_enabled, can_pick_treasure, brandish) ==
  IF ~p.can_be_picked \/ dialog_enabled \/ ~can_pick_treasure
  THEN p
  ELSE [p EXCEPT !.given_to_player = TRUE, !.removed = TRUE,
                 !.started = IF brandish THEN @ + 1 ELSE @,
                 !.given = IF brandish THEN @ ELSE @ + 1]

\* try_give_item_to_player(): started counts the calls of
\* Hero::start_treasure() and given the calls of Treasure::give_to_player().
Pickable_try_give_item_to_player(p, dialog_enabled, can_pick_treasure, brandish) ==
  IF ~p.can_be_picked \/ p.given_to_player \/ dialog_enabled \/ ~can_pick_treasure
  THEN p
  ELSE [p EXCEPT !.given_to_player = TRUE, !.removed = TRUE,
                 !.started = IF brandish THEN @ + 1 ELSE @,
                 !.given = IF brandish THEN @ ELSE @ + 1]

\* notify_collision(entity_overlapping, collision_mode).
Pickable_notify_collision(p, other, dialog_enabled, can_pick_treasure, brandish) ==
  IF other = "hero"
  THEN Pickable_try_give_item_to_player(p, dialog_enabled, can_pick_treasure, brandish)
  ELSE IF p.entity_followed = NoEntity /\ other \in {"boomerang", "hookshot"}
  THEN [p EXCEPT !.entity_followed = 1, !.blinking = FALSE]
  ELSE p

\* notify_collision(other_entity, other_sprite, this_sprite).
Pickable_notify_collision_sprite(p, other, sword, dialog_enabled, can_pick_treasure, brandish) ==
  IF other = "hero" /\ sword
  THEN Pickable_try_give_item_to_player(p, dialog_enabled, can_pick_treasure, brandish)
  ELSE p

\* update(): the entity followed that is being removed drops the treasure,
\* near the hero or not; then the dates. The hero checks its collisions
\* when the treasure becomes pickable.
Pickable_update_all(p, now, being_removed, near, overlaps, dialog_enabled, can_pick_treasure, brandish) ==
  LET p1 == IF p.entity_followed # NoEntity /\ being_removed
            THEN [(IF near
                   THEN Pickable_try_give_item_to_player(p, dialog_enabled, can_pick_treasure, brandish)
                   ELSE p) EXCEPT !.entity_followed = NoEntity]
            ELSE p
      p2 == Pickable_update(p1, now)
  IN IF ~p1.suspended /\ ~p1.can_be_picked /\ p2.can_be_picked /\ overlaps
     THEN Pickable_notify_collision(p2, "hero", dialog_enabled, can_pick_treasure, brandish)
     ELSE p2

\* A pickable treasure that has just been created, falling or not.
InitPickable ==
  /\ HeroIdle
  /\ ticks \in StartTicks
  /\ \E falling \in BOOLEAN, will_disappear \in BOOLEAN :
       ent = [suspended |-> FALSE, when_suspended |-> 0, removed |-> FALSE,
              blinking |-> FALSE, can_be_picked |-> ~falling,
              will_disappear |-> will_disappear,
              allow_pick_date |-> IF falling THEN UAdd(ticks, timestep) ELSE 0,
              blink_date |-> IF will_disappear THEN UAdd(ticks, 2 * timestep) ELSE 0,
              disappear_date |-> IF will_disappear THEN UAdd(ticks, 3 * timestep) ELSE 0,
              given_to_player |-> FALSE, entity_followed |-> NoEntity,
              started |-> 0, given |-> 0]
  /\ obs = [updates |-> 0, allowed |-> TRUE, after_gift |-> FALSE, by |-> "none"]
  /\ hook = NoHook

\* What is recorded of a call: whether a treasure given was allowed, which
\* call gave it, and whether the call came after the treasure had been given.
PickableObserved(dialog_enabled, can_pick_treasure, tried, by) ==
  LET gave == ent'.started + ent'.given > ent.started + ent.given
  IN [obs EXCEPT !.by = IF gave THEN by ELSE @,
                 !.allowed = @ /\ (gave => ent'.can_be_picked /\ ~dialog_enabled /\ can_pick_treasure),
                 !.after_gift = @ \/ (tried /\ ent.given_to_player /\ ent.can_be_picked
                                       /\ ~dialog_enabled /\ can_pick_treasure)]

PickableCollision(other, dialog_enabled, can_pick_treasure, brandish) ==
  /\ ent' = Pickable_notify_collision(ent, other, dialog_enabled, can_pick_treasure, brandish)
  /\ obs' = PickableObserved(dialog_enabled, can_pick_treasure, other = "hero", "overlap")
  /\ UNCHANGED <<hvars, ticks, hook>>

PickableSpriteCollision(other, sword, dialog_enabled, can_pick_treasure, brandish) ==
  /\ ent' = Pickable_notify_collision_sprite(ent, other, sword, dialog_enabled, can_pick_treasure, brandish)
  /\ obs' = PickableObserved(dialog_enabled, can_pick_treasure, other = "hero" /\ sword, "sword")
  /\ UNCHANGED <<hvars, ticks, hook>>

PickableUpdate(being_removed, near, overlaps, dialog_enabled, can_pick_treasure, brandish) ==
  /\ obs.updates < MaxPickableUpdates
  /\ ent' = Pickable_update_all(ent, System_now, being_removed, near, overlaps,
                                dialog_enabled, can_pick_treasure, brandish)
  /\ obs' = [PickableObserved(dialog_enabled, can_pick_treasure,
                              ent.entity_followed # NoEntity /\ being_removed /\ near,
                              IF ent.entity_followed # NoEntity /\ being_removed /\ near
                              THEN "drop" ELSE "overlap")
               EXCEPT !.updates = @ + 1]
  /\ ticks' = System_update
  /\ UNCHANGED <<hvars, hook>>

PickableSetSuspended(suspended) ==
  /\ suspended # ent.suspended
  /\ ent' = Pickable_set_suspended(ent, suspended, System_now)
  /\ UNCHANGED <<hvars, ticks, obs, hook>>

NextPickable ==
  \/ \E other \in Overlapping, d \in BOOLEAN, c \in BOOLEAN, b \in BOOLEAN :
       PickableCollision(other, d, c, b)
  \/ \E other \in Overlapping, sword \in BOOLEAN, d \in BOOLEAN, c \in BOOLEAN, b \in BOOLEAN :
       PickableSpriteCollision(other, sword, d, c, b)
  \/ \E r \in BOOLEAN, n \in BOOLEAN, o \in BOOLEAN, d \in BOOLEAN, c \in BOOLEAN, b \in BOOLEAN :
       PickableUpdate(r, n, o, d, c, b)
  \/ \E s \in BOOLEAN : PickableSetSuspended(s)

SpecPickable == InitPickable /\ [][NextPickable]_vars

(***************************************************************************)
(* Crystal::activate() and the delay between two activations.              *)
(***************************************************************************)
MaxActivators == 2     \* the entities that hit the crystal
MaxActivations == 4    \* calls of activate() in one behaviour of SpecCrystal
MaxCrystalUpdates == 5 \* updates in one behaviour of SpecCrystal

\* The delay of activate(), 1000 ms in the code, in a few steps of the clock.
CrystalDelay == 3 * timestep

\* The loop of activate(): each turn overwrites the answer of the turns before.
RECURSIVE Crystal_recently_activated(_, _, _)
Crystal_recently_activated(entities_activating, e, found) ==
  IF entities_activating = <<>> THEN found
  ELSE Crystal_recently_activated(Tail(entities_activating), e, Head(entities_activating) = e)

\* Crystal::activate(): state is the state of the crystals of the game.
Crystal_activate(c, e, now) ==
  IF ~Crystal_recently_activated(c.entities_activating, e, FALSE) \/ now >= c.next_possible_hit_date
  THEN [c EXCEPT !.state = ~@, !.next_possible_hit_date = UAdd(now, CrystalDelay),
                 !.entities_activating = Append(@, e)]
  ELSE c

\* Crystal::update() of a crystal that is not suspended.
Crystal_update(c, now) ==
  IF now >= c.next_possible_hit_date THEN [c EXCEPT !.entities_activating = <<>>] ELSE c

\* A crystal that has just been created, far from the end of the clock.
InitCrystal ==
  /\ HeroIdle
  /\ ticks = timestep
  /\ ent = [state |-> FALSE, next_possible_hit_date |-> System_now, entities_activating |-> <<>>]
  /\ obs = [updates |-> 0, activations |-> 0, since |-> {}, again |-> FALSE,
            again_latest |-> FALSE, refused |-> FALSE, latest |-> NoEntity, waited |-> FALSE]
  /\ hook = NoHook

\* An entity hits the crystal. since holds the entities that activated the
\* crystal since the delay last ran out, latest the one that did it last.
CrystalActivate(e) ==
  LET open == System_now < ent.next_possible_hit_date
      since == IF open THEN obs.since ELSE {}
      changed == ent'.state # ent.state
  IN /\ obs.activations < MaxActivations
     /\ ent' = Crystal_activate(ent, e, System_now)
     /\ obs' = [obs EXCEPT !.activations = @ + 1,
                           !.since = IF changed THEN since \cup {e} ELSE since,
                           !.latest = IF changed THEN e ELSE @,
                           !.again = @ \/ (changed /\ e \in since),
                           !.again_latest = @ \/ (changed /\ open /\ e = obs.latest),
                           !.refused = @ \/ (~changed /\ e \notin since),
                           !.waited = @ \/ (~changed /\ e \in since)]
     /\ UNCHANGED <<hvars, ticks, hook>>

\* The map updates the crystal, then the clock advances.
CrystalUpdate ==
  /\ obs.updates < MaxCrystalUpdates
  /\ ent' = Crystal_update(ent, System_now)
  /\ obs' = [obs EXCEPT !.updates = @ + 1]
  /\ ticks' = System_update
  /\ UNCHANGED <<hvars, hook>>

NextCrystal ==
  \/ \E e \in 1..MaxActivators : CrystalActivate(e)
  \/ CrystalUpdate

SpecCrystal == InitCrystal /\ [][NextCrystal]_vars

(***************************************************************************)
(* The timers of the Lua world: start, stop, stop_all and update_timers(). *)
(***************************************************************************)
MaxTimers == 2         \* the timers that a behaviour of SpecTimers starts
MaxTimerCalls == 4     \* calls of update_timers(), stop and stop_all in one behaviour
LUA_REFNIL == 0 - 1

Timers == 1..MaxTimers

\* What the callback of a timer does: the value it returns, and the timers
\* that it stops (none, its own timer, or all the timers of its context).
CallbackBehaviours == [repeat : BOOLEAN, stops : {"none", "self", "all"}]

\* The callback that returns nothing and stops nothing.
Quiet == [repeat |-> FALSE, stops |-> "none"]

\* A timer that was never started. called_after_stop, unrefs and destroyed
\* record the calls of the callback after a stop, the calls of
\* RefCountable::unref() and the callback references given back to Lua.
NoTimer ==
  [in_table |-> FALSE, callback_ref |-> LUA_REFNIL, context |-> 0, finished |-> FALSE,
   expiration_date |-> 0, duration |-> 0, started |-> FALSE,
   stopped |-> FALSE, stopped_all |-> FALSE, called_after_stop |-> FALSE,
   unrefs |-> 0, destroyed |-> 0, updated_after_stop |-> FALSE,
   updated_after_stop_all |-> FALSE]

\* Timer::Timer(), Timer::update() and Timer::set_expiration_date().
Timer_new(t, duration, now) ==
  [t EXCEPT !.expiration_date = UAdd(now, duration), !.duration = duration,
            !.finished = (now >= UAdd(now, duration)), !.started = TRUE]

Timer_update(t, now) ==
  IF t.finished THEN t ELSE [t EXCEPT !.finished = (now >= t.expiration_date)]

Timer_set_expiration_date(t, date, now) ==
  [t EXCEPT !.expiration_date = date, !.finished = (now >= date)]

\* LuaContext::cancel_callback() and destroy_ref(): nothing for LUA_REFNIL.
LuaContext_cancel_callback(w, id, callback_ref) ==
  IF callback_ref = LUA_REFNIL THEN w
  ELSE [w EXCEPT !.timers[id].destroyed = @ + 1]

\* add_timer(): the timer enters the table with a reference to its callback.
LuaContext_add_timer(w, id, context) ==
  [w EXCEPT !.timers[id].in_table = TRUE, !.timers[id].callback_ref = id,
            !.timers[id].context = context]

\* remove_timer() that leaves the callback in place.
LuaContext_remove_timer_keeps_callback(w, id) ==
  IF w.timers[id].in_table
  THEN [w EXCEPT !.timers[id].stopped = TRUE, !.to_remove = Append(@, id)]
  ELSE w

\* remove_timer(): timer:stop().
LuaContext_remove_timer(w, id) ==
  IF w.timers[id].in_table
  THEN LET w1 == IF ~w.timers[id].finished
                 THEN LuaContext_cancel_callback(w, id, w.timers[id].callback_ref)
                 ELSE w
       IN [w1 EXCEPT !.timers[id].callback_ref = LUA_REFNIL,
                     !.timers[id].stopped = TRUE,
                     !.to_remove = Append(@, id)]
  ELSE w

\* remove_timers(): sol.timer.stop_all(). The timers found are pushed on a
\* list that is local to the function.
RECURSIVE LuaContext_remove_timers_from(_, _, _)
LuaContext_remove_timers_from(w, context, id) ==
  IF id > MaxTimers THEN w
  ELSE IF w.timers[id].in_table /\ w.timers[id].context = context
  THEN LET w1 == IF ~w.timers[id].finished
                 THEN LuaContext_cancel_callback(w, id, w.timers[id].callback_ref)
                 ELSE w
       IN LuaContext_remove_timers_from(
            [w1 EXCEPT !.timers[id].callback_ref = LUA_REFNIL,
                       !.timers[id].stopped_all = TRUE],
            context, id + 1)
  ELSE LuaContext_remove_timers_from(w, context, id + 1)

LuaContext_remove_timers(w, context) == LuaContext_remove_timers_from(w, context, 1)

\* do_timer_callback(): the callback runs, and the timer is rescheduled
\* when it returns true.
RECURSIVE LuaContext_do_timer_callback(_, _, _, _)
LuaContext_do_timer_callback(w, id, behaviours, now) ==
  IF w.timers[id].in_table /\ w.timers[id].callback_ref # LUA_REFNIL
  THEN LET callback_ref == w.timers[id].callback_ref
           called == [w EXCEPT !.timers[id].called_after_stop =
                                  @ \/ w.timers[id].stopped \/ w.timers[id].stopped_all]
           w1 == CASE behaviours[id].stops = "self" -> LuaContext_remove_timer(called, id)
                   [] behaviours[id].stops = "all" ->
                        LuaContext_remove_timers(called, called.timers[id].context)
                   [] OTHER -> called
       IN IF behaviours[id].repeat
          THEN LET w2 == [w1 EXCEPT !.timers[id] =
                            Timer_set_expiration_date(@, UAdd(@.expiration_date, @.duration), now)]
               IN IF w2.timers[id].finished
                  THEN LuaContext_do_timer_callback(w2, id, behaviours, now)
                  ELSE w2
          ELSE [LuaContext_cancel_callback(w1, id, callback_ref)
                  EXCEPT !.timers[id].callback_ref = LUA_REFNIL,
                         !.to_remove = Append(@, id)]
  ELSE w

\* The first loop of update_timers(), from the timer id on.
RECURSIVE LuaContext_update_timers_from(_, _, _, _)
LuaContext_update_timers_from(w, id, behaviours, now) ==
  IF id > MaxTimers THEN w
  ELSE IF w.timers[id].in_table /\ w.timers[id].callback_ref # LUA_REFNIL
  THEN LET w1 == [w EXCEPT !.timers[id] = Timer_update(@, now)]
       IN LuaContext_update_timers_from(
            IF w1.timers[id].finished
            THEN LuaContext_do_timer_callback(w1, id, behaviours, now) ELSE w1,
            id + 1, behaviours, now)
  ELSE LuaContext_update_timers_from(w, id + 1, behaviours, now)

\* The second loop of update_timers(): the timers of timers_to_remove.
RECURSIVE LuaContext_erase_timers(_)
LuaContext_erase_timers(w) ==
  IF w.to_remove = <<>> THEN w
  ELSE LET id == Head(w.to_remove)
           w0 == [w EXCEPT !.to_remove = Tail(@)]
       IN IF w0.timers[id].in_table
          THEN LET w1 == IF ~w0.timers[id].finished
                         THEN LuaContext_cancel_callback(w0, id, w0.timers[id].callback_ref)
                         ELSE w0
               IN LuaContext_erase_timers(
                    [w1 EXCEPT !.timers[id].in_table = FALSE, !.timers[id].unrefs = @ + 1])
          ELSE LuaContext_erase_timers(w0)

LuaContext_update_timers(w, behaviours, now) ==
  LuaContext_erase_timers(LuaContext_update_timers_from(w, 1, behaviours, now))

\* The Lua world with no timer, far from the end of the clock.
InitTimers ==
  /\ HeroIdle
  /\ ticks = timestep
  /\ ent = [timers |-> [id \in Timers |-> NoTimer], to_remove |-> <<>>]
  /\ obs = [updates |-> 0, stops |-> 0]
  /\ hook = NoHook

\* sol.timer.start(context, delay, callback): a callback that returns true
\* for ever with a delay of 0 is left out. The timers are started in the
\* order of their numbers, and the contexts are used in the order of theirs.
TimerStart(id, context, delay, behaviours) ==
  /\ ~ent.timers[id].started
  /\ \A t \in Timers : t < id => ent.timers[t].started
  /\ \A c \in 1..(context - 1) : \E t \in Timers : ent.timers[t].context = c
  /\ delay = 0 => ~behaviours[id].repeat
  /\ \A t \in Timers : t # id \/ delay # 0 => behaviours[t] = Quiet
  /\ LET w1 == LuaContext_add_timer(
                 [ent EXCEPT !.timers[id] = Timer_new(@, delay, System_now)], id, context)
     IN ent' = IF delay = 0
               THEN LuaContext_do_timer_callback(w1, id, behaviours, System_now)
               ELSE w1
  /\ UNCHANGED <<hvars, ticks, obs, hook>>

\* timer:stop(), called outside a timer callback, on a timer of the table.
TimerStop(id) ==
  /\ ent.timers[id].in_table
  /\ obs.updates + obs.stops < MaxTimerCalls
  /\ ent' = LuaContext_remove_timer(ent, id)
  /\ obs' = [obs EXCEPT !.stops = @ + 1]
  /\ UNCHANGED <<hvars, ticks, hook>>

\* sol.timer.stop_all(context), called outside a timer callback, on a
\* context that has a timer in the table.
TimerStopAll(context) ==
  /\ obs.updates + obs.stops < MaxTimerCalls
  /\ \E t \in Timers : ent.timers[t].in_table /\ ent.timers[t].context = context
  /\ ent' = LuaContext_remove_timers(ent, context)
  /\ obs' = [obs EXCEPT !.stops = @ + 1]
  /\ UNCHANGED <<hvars, ticks, hook>>

\* update_timers(), then the clock advances. A timer that was stopped
\* before the end of this call has seen an update_timers() after its stop.
\* Only the timers that have a callback are given a behaviour to choose.
TimersUpdate(behaviours) ==
  /\ obs.updates + obs.stops < MaxTimerCalls
  /\ \A t \in Timers : ent.timers[t].callback_ref = LUA_REFNIL => behaviours[t] = Quiet
  /\ LET w1 == LuaContext_update_timers(ent, behaviours, System_now)
     IN ent' = [w1 EXCEPT !.timers = [id \in Timers |->
                  [w1.timers[id] EXCEPT
                     !.updated_after_stop = @ \/ w1.timers[id].stopped,
                     !.updated_after_stop_all = @ \/ w1.timers[id].stopped_all]]]
  /\ obs' = [obs EXCEPT !.updates = @ + 1]
  /\ ticks' = System_update
  /\ UNCHANGED <<hvars, hook>>

NextTimers ==
  \/ \E id \in Timers, context \in Timers, delay \in {0, 2 * timestep},
        behaviours \in [Timers -> CallbackBehaviours] :
       TimerStart(id, context, delay, behaviours)
  \/ \E id \in Timers : TimerStop(id)
  \/ \E context \in Timers : TimerStopAll(context)
  \/ \E behaviours \in [Timers -> CallbackBehaviours] : TimersUpdate(behaviours)

SpecTimers == InitTimers /\ [][NextTimers]_vars

(***************************************************************************)
(* The menus of the Lua world: start, stop, stop_all, remove_menus(),      *)
(* update_menus() and the callbacks of the menus of a context.             *)
(***************************************************************************)
MaxMenus == 3          \* the menus that a behaviour of SpecMenus starts
NoContext == 0         \* the context of an entry that is to be erased: nullptr

Menus == 1..MaxMenus

\* The context of the menus that are not children of a menu: sol.main.
MainContext == MaxMenus + 1

\* An entry of the list of menus; id tells the entries apart once ref is nil.
LuaMenuData(id, context) ==
  [id |-> id, ref |-> id, context |-> context, recently_added |-> TRUE]

\* What an on_finished callback does: the menu by starts the menu menu.
NoStart == [by |-> 0, menu |-> 0, context |-> 0, on_top |-> TRUE]
Starts == {NoStart} \cup [by : Menus, menu : Menus, context : {MainContext}, on_top : BOOLEAN]

\* An event: the answers of the callbacks, and the menu whose callback stops
\* a menu with sol.menu.stop(): the menu it is a child of, or else itself.
Events == [handles : [Menus -> BOOLEAN], stopper : 0..MaxMenus]

PosOf(menus, id) == CHOOSE i \in 1..Len(menus) : menus[i].id = id

\* add_menu() that places every menu on top.
LuaContext_add_menu_on_top(w, id, context, on_top) ==
  [w EXCEPT !.menus = Append(@, LuaMenuData(id, context)), !.started = @ \cup {id}]

\* add_menu(): the new entry goes to the back or to the front of the list.
LuaContext_add_menu(w, id, context, on_top) ==
  [w EXCEPT !.menus = IF on_top THEN Append(@, LuaMenuData(id, context))
                      ELSE <<LuaMenuData(id, context)>> \o @,
            !.started = @ \cup {id}]

\* The first loop of both remove_menus().
LuaContext_not_recently_added(w) ==
  [w EXCEPT !.menus = [i \in 1..Len(@) |-> [@[i] EXCEPT !.recently_added = FALSE]]]

RECURSIVE LuaContext_remove_menus_from(_, _, _, _)
RECURSIVE LuaContext_menu_on_finished(_, _, _)

\* remove_menus(context_index).
LuaContext_remove_menus(w, context, starts) ==
  LuaContext_remove_menus_from(LuaContext_not_recently_added(w), context, 1, starts)

\* menu_on_finished(): the children menus are stopped, then on_finished()
\* runs, and may start a menu.
LuaContext_menu_on_finished(w, ref, starts) ==
  LET w1 == LuaContext_remove_menus(w, ref, starts)
      w2 == [w1 EXCEPT !.finished[ref] = @ + 1,
                       !.children_stopped =
                          @ /\ \A i \in 1..Len(w1.menus) : w1.menus[i].context # ref]
  IN IF starts.by = ref /\ starts.menu \notin w2.started
     THEN [LuaContext_add_menu(w2, starts.menu, starts.context, starts.on_top)
             EXCEPT !.started_in_pass = starts.menu]
     ELSE w2

\* The second loop of remove_menus(context_index), from the entry i on.
LuaContext_remove_menus_from(w, context, i, starts) ==
  IF i > Len(w.menus) THEN w
  ELSE IF w.menus[i].context = context /\ ~w.menus[i].recently_added
  THEN LET w1 == LuaContext_menu_on_finished(
                   [w EXCEPT !.menus[i].ref = LUA_REFNIL, !.menus[i].context = NoContext],
                   w.menus[i].ref, starts)
       IN LuaContext_remove_menus_from(w1, context, PosOf(w1.menus, w.menus[i].id) + 1, starts)
  ELSE LuaContext_remove_menus_from(w, context, i + 1, starts)

\* The second loop of remove_menus(), from the entry i on.
RECURSIVE LuaContext_remove_all_menus_from(_, _, _)
LuaContext_remove_all_menus_from(w, i, starts) ==
  IF i > Len(w.menus) THEN w
  ELSE IF ~w.menus[i].recently_added /\ w.menus[i].ref # LUA_REFNIL
  THEN LET w1 == LuaContext_menu_on_finished(
                   [w EXCEPT !.menus[i].ref = LUA_REFNIL, !.menus[i].context = NoContext],
                   w.menus[i].ref, starts)
       IN LuaContext_remove_all_menus_from(w1, PosOf(w1.menus, w.menus[i].id) + 1, starts)
  ELSE LuaContext_remove_all_menus_from(w, i + 1, starts)

\* remove_menus().
LuaContext_remove_all_menus(w, starts) ==
  LuaContext_remove_all_menus_from(LuaContext_not_recently_added(w), 1, starts)

\* menu_api_stop(): the first entry of the menu is marked.
LuaContext_menu_api_stop(w, id, starts) ==
  IF \E i \in 1..Len(w.menus) : w.menus[i].ref = id
  THEN LET i == CHOOSE i \in 1..Len(w.menus) : w.menus[i].ref = id
       IN LuaContext_menu_on_finished(
            [w EXCEPT !.menus[i].ref = LUA_REFNIL, !.menus[i].context = NoContext], id, starts)
  ELSE w

\* update_menus(): the marked entries are erased.
LuaContext_update_menus(w) ==
  [w EXCEPT !.menus = SelectSeq([i \in 1..Len(@) |-> [@[i] EXCEPT !.recently_added = FALSE]],
                                LAMBDA e : e.ref # LUA_REFNIL)]

\* menus_on_update() and menu_on_update(); menus_on_draw() and
\* menu_on_draw() have the same shape. called lists the callbacks that ran.
RECURSIVE LuaContext_menus_on_update_from(_, _, _)
LuaContext_menus_on_update_from(w, context, i) ==
  IF i > Len(w.menus) THEN w
  ELSE IF w.menus[i].context = context
  THEN LuaContext_menus_on_update_from(
         LuaContext_menus_on_update_from(
           [w EXCEPT !.called = Append(@, w.menus[i].ref)], w.menus[i].ref, 1),
         context, i + 1)
  ELSE LuaContext_menus_on_update_from(w, context, i + 1)

\* Whether the entry of a menu is marked, or erased.
MenuStopped(w, id) == \A i \in 1..Len(w.menus) : w.menus[i].ref # id

\* menus_on_input() from the entry i down, and menu_on_input(); the
\* functions of the commands pressed and released have the same shape.
RECURSIVE LuaContext_menus_on_input_from(_, _, _, _)
RECURSIVE LuaContext_menu_on_input(_, _, _)
LuaContext_menus_on_input_from(w, context, i, event) ==
  IF i = 0 \/ w.handled THEN w
  ELSE IF w.menus[i].context = context
  THEN LuaContext_menus_on_input_from(
         LuaContext_menu_on_input(w, w.menus[i].ref, event), context, i - 1, event)
  ELSE LuaContext_menus_on_input_from(w, context, i - 1, event)

LuaContext_menu_on_input(w, ref, event) ==
  LET w1 == LuaContext_menus_on_input_from(w, ref, Len(w.menus), event)
  IN IF w1.handled THEN w1
     ELSE LET w2 == [w1 EXCEPT !.called = Append(@, ref),
                               !.called_stopped = @ \/ MenuStopped(w1, ref)]
              context == w.menus[PosOf(w.menus, ref)].context
              w3 == IF event.stopper = ref
                    THEN LuaContext_menu_api_stop(
                           w2, IF context \in Menus THEN context ELSE ref, NoStart)
                    ELSE w2
          IN [w3 EXCEPT !.handled = event.handles[ref]]

\* The Lua world with no menu. called, called_stopped, handled and
\* started_in_pass are what one call leaves for obs and are reset after it.
InitMenus ==
  /\ HeroIdle
  /\ ticks = 0
  /\ ent = [menus |-> <<>>, started |-> {}, finished |-> [id \in Menus |-> 0],
            children_stopped |-> TRUE, started_in_pass |-> 0, called |-> <<>>,
            called_stopped |-> FALSE, handled |-> FALSE]
  /\ obs = [kind |-> "none", offered |-> 0, handled |-> FALSE, in_order |-> TRUE,
            all_offered |-> TRUE, placed |-> TRUE, kept |-> TRUE, called_stopped |-> FALSE,
            pass_started |-> FALSE, pass_stopped |-> FALSE, nested |-> FALSE]
  /\ hook = NoHook

MenusDone(w) ==
  [w EXCEPT !.called = <<>>, !.called_stopped = FALSE, !.handled = FALSE,
            !.started_in_pass = 0]

\* The menus of a context and of its menus, in the list of menus.
RECURSIVE MenusUnder(_, _, _)
MenusUnder(menus, contexts, n) ==
  IF n = 0 THEN {}
  ELSE LET found == {menus[i].ref : i \in {j \in 1..Len(menus) : menus[j].context \in contexts}}
       IN found \cup MenusUnder(menus, found, n - 1)

\* What is recorded of a call w -> r of the given kind: the callbacks that
\* ran against the list of menus before the call.
MenusObserved(kind, r, handles, quiet) ==
  LET before == ent.menus
      context(id) == before[PosOf(before, id)].context
      n == Len(r.called)
  IN [kind |-> kind,
      offered |-> n,
      handled |-> r.handled,
      in_order |->
        /\ \A i \in 1..n : \A j \in (i + 1)..n :
             /\ context(r.called[i]) = context(r.called[j])
                  => PosOf(before, r.called[i]) > PosOf(before, r.called[j])
             /\ context(r.called[j]) # r.called[i]
        /\ \A i \in 1..(n - 1) : ~handles[r.called[i]]
        /\ r.handled <=> (n > 0 /\ handles[r.called[n]]),
      all_offered |->
        (kind = "input" /\ quiet /\ ~r.handled) =>
           {r.called[i] : i \in 1..n} = MenusUnder(before, {MainContext}, MaxMenus),
      placed |-> TRUE,
      kept |-> Len(r.menus) >= Len(before),
      called_stopped |-> r.called_stopped \/ \E i \in 1..n : r.called[i] = LUA_REFNIL,
      pass_started |-> r.started_in_pass # 0,
      pass_stopped |-> r.started_in_pass # 0 /\ MenuStopped(r, r.started_in_pass),
      nested |-> \E i \in 1..Len(before) : before[i].context \in Menus]

NoHandles == [id \in Menus |-> FALSE]


\* An on_finished callback starts a menu that is not started yet. The menus
\* are started in the order of their numbers.
MayStart(starts) ==
  starts = NoStart \/ (starts.by \in ent.started /\ starts.menu = Cardinality(ent.started) + 1)

\* sol.menu.start(context, menu, on_top), the context being sol.main or a
\* menu that is started.
MenuStart(id, context, on_top) ==
  /\ id = Cardinality(ent.started) + 1
  /\ context = MainContext \/ (context # id /\ ~MenuStopped(ent, context))
  /\ LET r == LuaContext_add_menu(ent, id, context, on_top)
     IN /\ ent' = MenusDone(r)
        /\ obs' = [MenusObserved("start", r, NoHandles, TRUE) EXCEPT !.placed =
                     /\ Len(r.menus) = Len(ent.menus) + 1
                     /\ r.menus[IF on_top THEN Len(r.menus) ELSE 1] = LuaMenuData(id, context)
                     /\ SubSeq(r.menus, IF on_top THEN 1 ELSE 2,
                               IF on_top THEN Len(ent.menus) ELSE Len(r.menus)) = ent.menus]
  /\ UNCHANGED <<hvars, ticks, hook>>

\* sol.menu.stop(menu).
MenuStop(id, starts) ==
  /\ id \in ent.started
  /\ MayStart(starts)
  /\ LET r == LuaContext_menu_api_stop(ent, id, starts)
     IN ent' = MenusDone(r) /\ obs' = MenusObserved("stop", r, NoHandles, TRUE)
  /\ UNCHANGED <<hvars, ticks, hook>>

\* sol.menu.stop_all(context).
MenuStopAll(context, starts) ==
  /\ context = MainContext \/ context \in ent.started
  /\ MayStart(starts)
  /\ LET r == LuaContext_remove_menus(ent, context, starts)
     IN ent' = MenusDone(r) /\ obs' = MenusObserved("stop_all", r, NoHandles, TRUE)
  /\ UNCHANGED <<hvars, ticks, hook>>

\* remove_menus().
MenusRemoveAll(starts) ==
  /\ MayStart(starts)
  /\ LET r == LuaContext_remove_all_menus(ent, starts)
     IN ent' = MenusDone(r) /\ obs' = MenusObserved("remove_menus", r, NoHandles, TRUE)
  /\ UNCHANGED <<hvars, ticks, hook>>

\* update_menus().
MenusUpdate ==
  /\ LET r == LuaContext_update_menus(ent)
     IN ent' = MenusDone(r)
        /\ obs' = [MenusObserved("update_menus", r, NoHandles, TRUE) EXCEPT !.kept = TRUE]
  /\ UNCHANGED <<hvars, ticks, hook>>

\* The menus of sol.main are updated; they are drawn by the same code.
MenusOnUpdate ==
  /\ LET r == LuaContext_menus_on_update_from(ent, MainContext, 1)
     IN ent' = MenusDone(r)
        /\ obs' = [MenusObserved("update", r, NoHandles, TRUE) EXCEPT !.in_order = TRUE]
  /\ UNCHANGED <<hvars, ticks, hook>>

\* An input event is sent to the menus of sol.main; a command pressed and a
\* command released are sent by the same code.
MenusOnInput(event) ==
  /\ event.stopper # 0 => ~MenuStopped(ent, event.stopper)
  /\ \A id \in Menus : MenuStopped(ent, id) => ~event.handles[id]
  /\ LET r == LuaContext_menus_on_input_from(ent, MainContext, Len(ent.menus), event)
     IN ent' = MenusDone(r)
        /\ obs' = MenusObserved("input", r, event.handles, event.stopper = 0)
  /\ UNCHANGED <<hvars, ticks, hook>>

NextMenus ==
  \/ \E id \in Menus, context \in Menus \cup {MainContext}, on_top \in BOOLEAN :
       MenuStart(id, context, on_top)
  \/ \E id \in Menus, starts \in Starts : MenuStop(id, starts)
  \/ \E context \in Menus \cup {MainContext}, starts \in Starts : MenuStopAll(context, starts)
  \/ \E starts \in Starts : MenusRemoveAll(starts)
  \/ MenusUpdate
  \/ MenusOnUpdate
  \/ \E event \in Events : MenusOnInput(event)

SpecMenus == InitMenus /\ [][NextMenus]_vars

(***************************************************************************)
(* The claims.                                                             *)
(***************************************************************************)
\* The calls of the last operation, by their position in the log.
Calls == DOMAIN log
IsCall(i, ev, inst, other) ==
  log[i].ev = ev /\ log[i].inst = inst /\ log[i].other = other

\* The calls set_state(new) of the last operation whose argument was not the
\* current state.
Transitions == {i \in Calls : log[i].ev = "set_state" /\ log[i].inst # log[i].other}

\* C1: for every set_state(new) whose argument is not the current state, from
\* the game logic, from update() or finish_movement() of a state, or from
\* inside BoomerangState::start(), stop(new) of the outgoing state is invoked
\* exactly once, and before start(old) of the new state.
C1_StopOnceBeforeStart ==
  \A i \in Transitions :
    LET new == log[i].inst
        old == log[i].other
        stops == {j \in Calls : IsCall(j, "stop", old, new)}
        starts == {j \in Calls : IsCall(j, "start", new, old)}
    IN /\ Cardinality(stops) = 1
       /\ \A j \in stops : j > i
       /\ ~fatal => Cardinality(starts) = 1
       /\ \A j \in stops, k \in starts : j < k

\* A transition was requested from inside start() of the state that another
\* transition was starting.
C1_Witness ==
  \E i, j \in Transitions :
    /\ i < j
    /\ log[j].other = log[i].inst
    /\ insts[hero.state].kind = "free"
    /\ \E k \in Calls : k > j /\ IsCall(k, "stop", log[i].inst, log[j].inst)

\* C2: at every instant, the instants inside a transition and inside a
\* transition requested from inside another one included, the hero's current
\* state is one live State instance.
C2_OneCurrentState ==
  /\ hero.state \in Ids
  /\ insts[hero.state].alive
  /\ \A i \in Calls : log[i].cur \in Ids /\ log[i].cur_alive

\* start() of a boomerang state returned after the transition that it
\* requested had made another state the current one.
C2_Witness ==
  \E i \in Calls :
    /\ log[i].ev = "started"
    /\ log[i].cur # log[i].inst
    /\ log[i].cur = hero.state
    /\ insts[hero.state].alive

\* C3: a replaced state is destroyed only after its own stop() has run and
\* after start() of its successor has run.
C3_DestroyAfterStopAndStart ==
  \A i \in Calls :
    log[i].ev = "destroy" =>
      \E j, k \in Calls :
        /\ j < k /\ k < i
        /\ log[j].ev = "stop" /\ log[j].inst = log[i].inst
        /\ log[k].ev = "started" /\ log[k].other = log[i].inst
        /\ log[k].inst = log[j].other

\* Two states were destroyed by one operation: the boomerang state that asked
\* for the free state from its start(), then the state that it replaced.
C3_Witness ==
  \E i, j \in Calls :
    /\ i < j
    /\ log[i].ev = "destroy" /\ log[j].ev = "destroy"
    /\ log[i].inst # log[j].inst
    /\ ~insts[log[i].inst].alive /\ ~insts[log[j].inst].alive

\* C4: set_state() with the state that is the current one changes nothing: no
\* stop(), no start(), no destruction, and the fields of the hero, of the
\* states and of the carried item (its reference count included) and the map
\* are unchanged.
C4_SameStateIsNoOp ==
  [][(log' # <<>> /\ log'[1].ev = "set_state" /\ log'[1].inst = log'[1].other)
       => /\ Len(log') = 1
          /\ hero' = hero /\ insts' = insts /\ item' = item /\ map' = map
          /\ fatal' = fatal]_vars

\* set_state() was called with the current state while the hero jumps with an
\* item.
C4_Witness ==
  /\ Len(log) = 1
  /\ log[1].ev = "set_state" /\ log[1].inst = log[1].other
  /\ log[1].inst = hero.state
  /\ insts[hero.state].kind = "jumping"
  /\ insts[hero.state].item = ITEM
  /\ hero.movement # "none"

\* C11: when a state that still holds an item is stopped for a successor
\* whose policy is KEEP while the count of the item is not greater than 1,
\* stop() ends in a fatal assertion failure and nothing more is run;
\* JumpingState::stop() is fatal too for a policy that is none of THROW,
\* DESTROY and KEEP.
C11_KeepWithoutReferenceIsFatal ==
  \A i \in DOMAIN handoffs :
    LET h == handoffs[i] IN
    /\ (h.policy = BEHAVIOR_KEEP /\ h.refs_before <= 1) => h.aborted
    /\ (h.out_kind = "jumping" /\ h.policy = BEHAVIOR_INVALID) => h.aborted
    /\ h.aborted =>
         /\ fatal
         /\ insts[hero.state].kind = h.out_kind
         /\ \A k \in Calls : log[k].ev \notin {"start", "started", "destroy"}

\* A lifting state was stopped for a KEEP successor that had taken no
\* reference to the item, which nobody else held.
C11_Witness ==
  \E i \in DOMAIN handoffs :
    /\ handoffs[i].out_kind = "lifting"
    /\ handoffs[i].policy = BEHAVIOR_KEEP
    /\ handoffs[i].refs_before = 1
    /\ fatal

\* A jumping state was stopped for a successor whose policy is no enumerator.
C11_WitnessInvalid ==
  \E i \in DOMAIN handoffs :
    /\ handoffs[i].out_kind = "jumping"
    /\ handoffs[i].policy = BEHAVIOR_INVALID
    /\ fatal

\* C13: while the game is suspended, update() requests no transition and
\* leaves the hero, its current state (StreamState.snapping and
\* hero.on_stream included) and the map as they were; set_suspended itself
\* still reaches the current state, which passes it to the item it holds.
C13_UpdateWhileSuspended ==
  [][ /\ (hero.suspended /\ log' # <<>> /\ log'[1].ev = "update") =>
           /\ Len(log') = 1
           /\ hero' = hero
           /\ insts' = insts
           /\ item'.refcount = item.refcount
           /\ map' = map
           /\ fatal' = fatal
      /\ hero'.suspended # hero.suspended =>
           /\ insts' = insts
           /\ [hero' EXCEPT !.suspended = hero.suspended] = hero
           /\ insts[hero.state].item # NULL => item'.suspended = hero'.suspended
    ]_vars

\* update() has just run on a stream state that is still snapping, with the
\* game suspended and the flag of the stream set.
C13_Witness ==
  /\ hero.suspended
  /\ Len(log) = 1
  /\ log[1].ev = "update"
  /\ insts[hero.state].kind = "stream"
  /\ insts[hero.state].snapping
  /\ hero.on_stream

\* update() has just run on a lifting state whose item is suspended with it.
C13_WitnessLifting ==
  /\ hero.suspended
  /\ Len(log) = 1
  /\ log[1].ev = "update"
  /\ insts[hero.state].kind = "lifting"
  /\ item.suspended
  /\ item.being_lifted

\* C14: update() of the jumping state requests a transition exactly when the
\* jump movement reports that it is finished, and always through
\* start_state_from_ground: the successor is the state of the ground under
\* the hero (the swimming state over shallow water, the falling state over
\* a hole), never the free state chosen directly.
C14_JumpEndsFromGround ==
  [][ (log' # <<>> /\ log'[1].ev = "update" /\ log'[1].kind = "jumping") =>
        IF log'[1].arg = "finished"
        THEN /\ Len(log') >= 3
             /\ log'[2].ev = "start_state_from_ground"
             /\ log'[3].ev = "set_state"
             /\ \A k \in 4..Len(log') : log'[k].ev # "set_state"
             /\ ~fatal' =>
                  insts'[hero'.state].kind =
                    CASE log'[2].arg = "shallow water" -> "swimming"
                      [] log'[2].arg = "hole" -> "falling"
                      [] insts[hero.state].item # NULL -> "carrying"
                      [] OTHER -> "free"
        ELSE /\ Len(log') = 1
             /\ insts'[hero'.state].kind = "jumping"
             /\ insts' = insts
    ]_vars

\* A jump has just ended over shallow water: the hero swims.
C14_Witness ==
  /\ Len(log) >= 3
  /\ log[1].ev = "update"
  /\ log[1].kind = "jumping"
  /\ log[1].arg = "finished"
  /\ log[2].arg = "shallow water"
  /\ insts[hero.state].kind = "swimming"
  /\ ~fatal

\* C15: finish_movement() of the hookshot state has exactly one of three
\* outcomes and none is fatal: on the lowest layer, or with no empty ground
\* under the hero, the state is derived from the ground on the same layer;
\* otherwise, with no obstacle one layer below, the hero goes one layer down
\* and the state is derived from the ground; otherwise the hero enters the
\* back-to-solid-ground state. The layer is never below the lowest one.
C15_FinishMovementOutcomes ==
  [][ /\ hero'.layer >= LAYER_LOW
      /\ (log' # <<>> /\ log'[1].ev = "finish_movement") =>
           LET empty == log'[1].arg \in {MapAnswer(TRUE, TRUE), MapAnswer(TRUE, FALSE)}
               below == log'[1].arg \in {MapAnswer(TRUE, TRUE), MapAnswer(FALSE, TRUE)}
               from_ground == Len(log') >= 2 /\ log'[2].ev = "start_state_from_ground"
               back == insts'[hero'.state].kind = "back to solid ground"
           IN /\ ~fatal'
              /\ insts[hero.state].kind = "hookshot"
              /\ \E k \in DOMAIN log' : log'[k].ev = "set_state"
              /\ CASE hero.layer = LAYER_LOW \/ ~empty ->
                        from_ground /\ ~back /\ hero'.layer = hero.layer
                   [] ~(hero.layer = LAYER_LOW \/ ~empty) /\ ~below ->
                        from_ground /\ ~back /\ hero'.layer = hero.layer - 1
                   [] OTHER ->
                        ~from_ground /\ back /\ hero'.layer = hero.layer
    ]_vars

\* The hookshot movement has just ended over empty ground with nothing in
\* the way below: the hero is one layer down, on the lowest layer.
C15_Witness ==
  /\ log # <<>>
  /\ log[1].ev = "finish_movement"
  /\ log[1].arg = MapAnswer(TRUE, FALSE)
  /\ Len(log) >= 2
  /\ log[2].ev = "start_state_from_ground"
  /\ hero.layer = LAYER_LOW
  /\ ~fatal

\* The hookshot movement has just ended over empty ground with an obstacle
\* below: the hero goes back to solid ground.
C15_WitnessBack ==
  /\ log # <<>>
  /\ log[1].ev = "finish_movement"
  /\ log[1].arg = MapAnswer(TRUE, TRUE)
  /\ insts[hero.state].kind = "back to solid ground"
  /\ hero.layer > LAYER_LOW

\* C16: when a boomerang is on the map at the start of a boomerang state,
\* the hero is in the free state once the transition is over, the preparing
\* animation is not set, the instance is destroyed before it could add a
\* boomerang, and the map never holds two boomerangs.
C16_OneBoomerang ==
  [][ /\ map'.boomerangs <= 1
      /\ \A k \in DOMAIN log' :
           (log'[k].ev = "start" /\ log'[k].kind = "boomerang" /\ map.boomerangs > 0) =>
             /\ insts'[hero'.state].kind = "free"
             /\ hero'.animation # "boomerang"
             /\ map'.boomerangs = map.boomerangs
             /\ \E d \in DOMAIN log' :
                  d > k /\ log'[d].ev = "destroy" /\ log'[d].inst = log'[k].inst
             /\ ~fatal'
    ]_vars

\* A boomerang state has just been started and destroyed with a boomerang
\* on the map.
C16_Witness ==
  /\ map.boomerangs = 1
  /\ insts[hero.state].kind = "free"
  /\ \E k \in DOMAIN log :
       /\ log[k].ev = "start"
       /\ log[k].kind = "boomerang"
       /\ \E d \in DOMAIN log : d > k /\ log[d].ev = "destroy" /\ log[d].inst = log[k].inst

\* C17: as long as the current state of the hero is a lifting state that was
\* started, the player is not allowed to pause the game.
C17_NoPauseWhileLifting ==
  insts[hero.state].kind = "lifting" => ~hero.pause_allowed

\* C18: a stream state that has just been started is in the snapping phase
\* with the target movement; as long as the same instance is current, the
\* phase changes only at an update with the game not suspended and the
\* snapping movement finished, which installs the path movement and keeps
\* the state; the path phase never goes back to the snapping phase.
C18_SnapThenPath ==
  [][ LET started == \E k \in DOMAIN log' : log'[k].ev = "start"
          update == log' # <<>> /\ log'[1].ev = "update"
          now == insts'[hero'.state]
          before == insts[hero.state]
      IN /\ (started /\ now.kind = "stream") =>
              now.snapping /\ hero'.movement = "target"
         /\ (~started /\ before.kind = "stream") =>
              /\ now.kind = "stream"
              /\ ~before.snapping => ~now.snapping
              /\ IF update /\ ~hero.suspended /\ before.snapping /\ log'[1].arg = "finished"
                 THEN ~now.snapping /\ hero'.movement = "path"
                 ELSE now.snapping = before.snapping /\ hero'.movement = hero.movement
    ]_vars

\* The first update with the snapping movement finished has just put a
\* stream state in the path phase.
C18_Witness ==
  /\ Len(log) = 1
  /\ log[1].ev = "update"
  /\ log[1].arg = "finished"
  /\ insts[hero.state].kind = "stream"
  /\ ~insts[hero.state].snapping
  /\ hero.movement = "path"

\* C19: at every update of a stream state in the path phase, with the game
\* not suspended, the hero leaves for the free state if and only if the path
\* movement is finished or no stream has set hero.on_stream since the
\* previous update, and the update leaves the flag cleared.
C19_LeavesWhenNotRefreshed ==
  [][ (/\ log' # <<>>
       /\ log'[1].ev = "update"
       /\ log'[1].kind = "stream"
       /\ ~hero.suspended
       /\ ~insts[hero.state].snapping) =>
        LET leaves == /\ \E k \in DOMAIN log' : log'[k].ev = "set_state"
                      /\ insts'[hero'.state].kind = "free"
        IN /\ leaves <=> (log'[1].arg = "finished" \/ ~hero.on_stream_refreshed)
           /\ ~hero'.on_stream
    ]_vars

\* C20: whenever the current state of the hero is a jumping state, it
\* answers true to can_avoid_deep_water, can_avoid_hole, can_avoid_ice,
\* can_avoid_lava, can_avoid_prickle and can_avoid_teletransporter, and false
\* to can_be_hurt(attacker) for every attacker and for no attacker.
C20_JumpingAvoidsHazards ==
  insts[hero.state].kind = "jumping" =>
    /\ \A hazard \in Hazards : Hero_state_can_avoid(World, hazard)
    /\ \A attacker \in Attackers : ~Hero_state_can_be_hurt(World, attacker)

\* A jump is in progress: the jumping state has just been updated and its
\* movement is not finished.
C20_Witness ==
  /\ insts[hero.state].kind = "jumping"
  /\ Len(log) = 1
  /\ log[1].ev = "update"
  /\ log[1].arg = "running"
  /\ ~Hero_state_can_be_hurt(World, NULL)

\* C21: whenever the current state of the hero is a hookshot state, it
\* answers false to can_be_hurt(attacker) for every attacker and for no
\* attacker, and true to the avoidance of deep water, holes, ice, lava,
\* prickles, teletransporters, streams and switches.
C21_HookshotAvoidsHazards ==
  insts[hero.state].kind = "hookshot" =>
    /\ \A hazard \in HookshotHazards : Hero_state_can_avoid(World, hazard)
    /\ \A attacker \in Attackers : ~Hero_state_can_be_hurt(World, attacker)

\* The hookshot state is current and its hookshot is flying.
C21_Witness ==
  /\ insts[hero.state].kind = "hookshot"
  /\ map.hookshot = "flying"
  /\ ~Hero_state_can_be_hurt(World, "enemy")
  /\ Hero_state_can_avoid(World, "switch")

\* C22: a state answers every query its class does not define as the free
\* state answers it, for every argument; the bow, boomerang and using-item
\* states answer every query but the avoidance of streams as the free state
\* does, and the bow and boomerang states differ from it on that one.
C22_InheritedAnswersAreBaseline ==
  \A i \in DOMAIN log :
    log[i].ev = "ask" =>
      LET k == log[i].kind
          q == log[i].arg
          baseline == State_virtual_answer("free", q, log[i].entity)
      IN /\ q \notin Overrides(k) => log[i].answer = baseline
         /\ (k \in {"bow", "boomerang", "using item"} /\ q # "stream") =>
              log[i].answer = baseline
         /\ (k \in {"bow", "boomerang"} /\ q = "stream") => log[i].answer # baseline

\* The bow state was asked whether the hero can be hurt by an enemy, which
\* its class does not define, and answered yes.
C22_Witness ==
  /\ log # <<>>
  /\ log[1].ev = "ask"
  /\ log[1].kind = "bow"
  /\ log[1].arg = "can_be_hurt"
  /\ log[1].entity = "enemy"
  /\ log[1].answer

\* C23: every update of the main loop advances System::now() by exactly
\* System::timestep, modulo the range of the clock, and no other step
\* changes it: the date is the starting date plus one timestep per update.
C23_ClockStepsByTimestep ==
  [][ IF obs'.updates # obs.updates
      THEN /\ obs'.updates = obs.updates + 1
           /\ ticks' = (ticks + timestep) % ClockRange
      ELSE ticks' = ticks
    ]_vars

\* The main loop has made updates and the clock has wrapped around.
C23_Witness ==
  /\ obs.updates >= 2
  /\ ticks < timestep

\* C24: when an update of the lifting state finds the lift over and hands
\* the item to a new carrying state, then once the transition is over and
\* the lifting state destroyed, the carrying state holds the item and the
\* count of the item is the number of its other owners plus one: the
\* reference taken by the constructor of the lifting state is not counted.
C24_LiftHandsOverOneReference ==
  [][ (/\ log' # <<>>
       /\ log'[1].ev = "update"
       /\ log'[1].kind = "lifting"
       /\ \E k \in DOMAIN log' : log'[k].ev = "destroy" /\ log'[k].kind = "lifting"
       /\ ~fatal') =>
        /\ insts'[hero'.state].kind = "carrying"
        /\ insts'[hero'.state].item = ITEM
        /\ {i \in Ids : insts'[i].alive /\ insts'[i].item = ITEM} = {hero'.state}
        /\ item'.refcount = item'.external + 1
    ]_vars

\* C25 as stated: when the preparing animation finishes, one boomerang is
\* added and the hero is free, and the direction of the throw is the
\* direction the player pressed (at the start, or else at the end of the
\* animation), the direction the hero faces being used only when none was.
C25_ThrowFollowsPressedDirection ==
  (log # <<>> /\ log[Len(log)].ev = "add_entity") =>
    LET t == log[Len(log)]
        pressed == IF t.direction_pressed8 # -1 THEN t.direction_pressed8
                   ELSE t.wanted_direction8
    IN /\ map.boomerangs = 1
       /\ insts[hero.state].kind = "free"
       /\ t.direction8 \in 0..7
       /\ t.direction8 = IF pressed # -1 THEN pressed ELSE t.animation_direction * 2

\* C25 amended: when the preparing animation finishes, one boomerang is added
\* and the hero is free; the direction of the throw is the direction pressed
\* (at the start, or else at the end of the animation) only when that one is
\* a diagonal, and is the direction the hero faces when no direction or one
\* of the four main directions was pressed. An update with the animation not
\* finished adds nothing.
C25_ThrowFollowsDiagonalOrFacing ==
  /\ (log # <<>> /\ log[Len(log)].ev = "add_entity") =>
       LET t == log[Len(log)]
           pressed == IF t.direction_pressed8 # -1 THEN t.direction_pressed8
                      ELSE t.wanted_direction8
       IN /\ map.boomerangs = 1
          /\ insts[hero.state].kind = "free"
          /\ log[1].ev = "update" /\ log[1].arg = "finished"
          /\ t.direction8 \in 0..7
          /\ t.direction8 = IF pressed \in {1, 3, 5, 7} THEN pressed
                            ELSE t.animation_direction * 2
  /\ (log # <<>> /\ log[1].ev = "update" /\ log[1].arg = "running") =>
       /\ map.boomerangs = 0
       /\ insts[hero.state].kind = "boomerang"

\* The player pressed up (2) at the start while the hero faced right (0):
\* the boomerang was thrown to the right.
C25_Witness ==
  /\ log # <<>>
  /\ log[Len(log)].ev = "add_entity"
  /\ log[Len(log)].direction_pressed8 = 2
  /\ log[Len(log)].animation_direction = 0
  /\ log[Len(log)].direction8 = 0
  /\ map.boomerangs = 1

\* The player pressed a diagonal at the end of the animation only: the
\* boomerang follows it.
C25_WitnessDiagonal ==
  /\ log # <<>>
  /\ log[Len(log)].ev = "add_entity"
  /\ log[Len(log)].direction_pressed8 = -1
  /\ log[Len(log)].wanted_direction8 = 3
  /\ log[Len(log)].direction8 = 3

\* C26: once the hero has left a hookshot state, the hookshot of that state
\* is being removed from the map. When the state is stopped while its
\* hookshot is not being removed, stop() removes it and clears the movement
\* of the hero; when the hookshot is already being removed, stop() leaves the
\* movement of the hero as it is.
C26_StopRemovesHookshot ==
  [][ /\ insts'[hero'.state].kind # "hookshot" => map'.hookshot # "flying"
      /\ \A k \in DOMAIN log' :
           (log'[k].ev = "stop" /\ log'[k].kind = "hookshot") =>
             /\ ~fatal'
             /\ insts'[hero'.state].kind # "hookshot" => map'.hookshot = "being_removed"
             /\ insts'[hero'.state].kind \in {"free", "falling", "swimming", "bow"} =>
                  hero'.movement = IF map.hookshot = "being_removed" THEN hero.movement
                                   ELSE "none"
    ]_vars

\* A hookshot state whose hookshot was flying while the hero had a movement
\* was interrupted by the free state.
C26_Witness ==
  /\ insts[hero.state].kind = "free"
  /\ map.hookshot = "being_removed"
  /\ hero.movement = "none"
  /\ \E k \in DOMAIN log : log[k].ev = "stop" /\ log[k].kind = "hookshot"

\* A hookshot state whose hookshot was already being removed was stopped:
\* the movement of the hero is still there.
C26_WitnessUntouched ==
  /\ insts[hero.state].kind = "free"
  /\ map.hookshot = "being_removed"
  /\ hero.movement = "hookshot"
  /\ \E k \in DOMAIN log : log[k].ev = "stop" /\ log[k].kind = "hookshot"

\* C27: as long as the same lifting or jumping state holds the item, every
\* set_suspended delivered to the state gives its value to the suspended
\* flag of the item, and no other step changes the flag: after any sequence
\* of calls, the flag is the last value delivered.
C27_ItemFollowsSuspension ==
  [][ (/\ insts[hero.state].kind \in {"lifting", "jumping"}
       /\ insts[hero.state].item # NULL
       /\ \A k \in DOMAIN log' : log'[k].ev # "start") =>
        IF hero'.suspended # hero.suspended
        THEN item'.suspended = hero'.suspended
        ELSE item'.suspended = item.suspended
    ]_vars

\* A jumping state that carries the item was suspended, and the item with it.
C27_Witness ==
  /\ insts[hero.state].kind = "jumping"
  /\ insts[hero.state].item = ITEM
  /\ hero.suspended
  /\ item.suspended
  /\ log = <<>>

\* The dates of the pickable are those of its creation moved by d.
PickableDatesMovedBy(d) ==
  /\ ~ent.pickable.can_be_picked =>
       ent.pickable.allow_pick_date = UAdd(obs.allow_pick_date, d)
  /\ ent.pickable.will_disappear =>
       /\ ent.pickable.blink_date = UAdd(obs.blink_date, d)
       /\ ent.pickable.disappear_date = UAdd(obs.disappear_date, d)

\* C28: after any sequence of set_suspended calls, each date of a pickable
\* (allow_pick_date while it cannot be picked, blink_date and disappear_date
\* while it will disappear) and next_possible_hit_date of a crystal is the
\* date set at creation plus the total time spent suspended: a resume that
\* ends a suspension of duration D adds D, any other resume adds nothing.
C28_DatesMovedBySuspendedTime ==
  /\ ~ent.pickable.removed => PickableDatesMovedBy(obs.total)
  /\ ent.crystal.next_possible_hit_date = UAdd(obs.next_possible_hit_date, obs.total)

\* The dates are right as long as every call of set_suspended changed the
\* suspension, and for the pickable as long as no suspension started at date 0.
DatesMovedAfterEndedSuspensions ==
  ~obs.redundant =>
    /\ ent.crystal.next_possible_hit_date = UAdd(obs.next_possible_hit_date, obs.total)
    /\ ~obs.from_zero /\ ~ent.pickable.removed => PickableDatesMovedBy(obs.total)

\* A suspension that lasted at least one update has ended.
DatesResumed ==
  obs.resumed /\ obs.total > 0 /\ ~ent.crystal.suspended /\ ~ent.pickable.removed

\* C29: no state is destroyed while one of its own methods is executing: a
\* state destroyed by an operation is not the state whose update() or
\* notify_obstacle_reached() is that operation, and its destruction does not
\* fall between the call and the return of its own start().
C29_NoDestroyInsideOwnMethod ==
  \A d \in Calls :
    log[d].ev = "destroy" =>
      /\ ~(log[1].ev \in {"update", "finish_movement"} /\ log[1].inst = log[d].inst)
      /\ \A a \in Calls :
           (a < d /\ log[a].ev = "start" /\ log[a].inst = log[d].inst) =>
             \E b \in Calls :
               a < b /\ b < d /\ log[b].ev = "started" /\ log[b].inst = log[d].inst

\* The states destroyed from the game logic are destroyed outside their methods.
DestroyFromGameLogicIsOutside ==
  (log # <<>> /\ log[1].ev = "set_state" /\ Cardinality(Transitions) = 1) =>
    C29_NoDestroyInsideOwnMethod

\* C30: the reference that the constructor of a lifting or jumping state
\* took is given up at most once over the life of the state: after stop()
\* the pointer of the state is null, the destructor that follows releases
\* nothing more, and the destructor of a state that was never stopped
\* releases the reference exactly once.
C30_ReferenceGivenUpAtMostOnce ==
  /\ obs.released <= (IF obs.held THEN 1 ELSE 0)
  /\ obs.stopped /\ ~fatal => obs.out_ptr = NULL
  /\ obs.destroyed /\ ~obs.stopped /\ obs.held /\ ~fatal => obs.released = 1

\* A state that held the item was stopped for a successor that keeps it, then
\* destroyed: one reference was given up.
C30_Witness ==
  /\ obs.held /\ obs.stopped /\ obs.destroyed /\ ~fatal
  /\ insts[2].item = ITEM
  /\ obs.released = 1

\* A state that held the item was destroyed without having been stopped.
C30_WitnessNeverStopped ==
  obs.held /\ obs.destroyed /\ ~obs.stopped /\ ~fatal /\ obs.released = 1

\* What holds of every iteration of the loop of run(): between 0 and 10
\* updates, a redraw exactly when an update ran, and at the end of the
\* updates a lag under one timestep, or 10 updates, or a requested exit.
IterationBounds ==
  /\ ent.num_updates \in 0..MaxUpdatesPerFrame
  /\ ent.drawn <=> ent.num_updates > 0
  /\ \/ ent.lag < timestep
     \/ ent.num_updates = MaxUpdatesPerFrame
     \/ ent.exiting

\* C31, as stated: the bounds of an iteration, and an iteration that found
\* a lag of 200 ms or more runs exactly one update.
C31_HugeLagRunsOneUpdate ==
  /\ IterationBounds
  /\ ent.huge => ent.num_updates = 1

\* C31: the bounds of an iteration, and an iteration that found a lag of
\* 200 ms or more runs exactly one update unless its input closed the
\* window, and then none.
C31_HugeLagRunsOneUpdateUnlessExit ==
  /\ IterationBounds
  /\ ent.huge => ent.num_updates = (IF ent.window_closing THEN 0 ELSE 1)

\* An iteration found a huge lag, ran one update and drew.
C31_Witness ==
  obs.frames > 0 /\ ent.huge /\ ent.num_updates = 1 /\ ent.drawn /\ ent.lag = 0

\* An iteration ran ten updates and stopped with lag left.
C31_WitnessTenUpdates ==
  ent.num_updates = MaxUpdatesPerFrame /\ ent.lag >= timestep /\ ~ent.exiting

\* The step is a call of set_game / an update of the main loop.
IsSetGame == obs'.calls = obs.calls + 1
IsGameUpdate == obs'.updates = obs.updates + 1

\* What the update after set_game(g) does when it switches to g: the old
\* game is deleted once, g is the current game and was started once, or the
\* Lua world was restarted once when g is no game.
SwitchedTo(g) ==
  /\ MainLoop_get_game(ent') = g
  /\ \A o \in Games :
       ent'.deletes[o] = ent.deletes[o] + (IF o = ent.game THEN 1 ELSE 0)
  /\ \A n \in Games :
       ent'.starts[n] = ent.starts[n] + (IF n = g THEN 1 ELSE 0)
  /\ ent'.lua_restarts = ent.lua_restarts + (IF g = NoGame THEN 1 ELSE 0)

\* C32: set_game(g) stops the running game at once and leaves get_game()
\* as it is; the next update deletes the old game once, makes g the current
\* game and starts it once, or restarts the Lua world when g is no game;
\* is_resetting() is true exactly when there is a game and no next game.
C32_SetGameIsDeferred ==
  [][ /\ IsSetGame =>
           /\ MainLoop_get_game(ent') = MainLoop_get_game(ent)
           /\ \A o \in Games :
                ent'.stops[o] = ent.stops[o] + (IF o = ent.game THEN 1 ELSE 0)
      /\ IsGameUpdate => \A g \in obs.requested : SwitchedTo(g)
      /\ MainLoop_is_resetting(ent') <=> (ent'.game # NoGame /\ ent'.next_game = NoGame)
    ]_vars

\* The same when one game was asked for since the last update, and it is
\* not the game that was current.
SetGameOfAnotherGameIsDeferred ==
  [][ /\ IsSetGame =>
           /\ MainLoop_get_game(ent') = MainLoop_get_game(ent)
           /\ \A o \in Games :
                ent'.stops[o] = ent.stops[o] + (IF o = ent.game THEN 1 ELSE 0)
      /\ IsGameUpdate =>
           \A g \in obs.requested :
             (obs.requested = {g} /\ g # ent.game) => SwitchedTo(g)
      /\ IsGameUpdate /\ obs.requested = {} => ent' = ent
    ]_vars

\* A game replaced another one.
GameReplaced ==
  \E o, n \in Games : o # n /\ ent.deletes[o] = 1 /\ ent.game = n /\ ent.starts[n] = 1

\* C33: every call of PixelMovement::update() returns, and a call made
\* while the movement is suspended, finished or no longer the movement of
\* its entity makes no step.
C33_UpdateTerminates ==
  /\ [](obs.idle_call => ~obs.stepped)
  /\ (ent.pc = "loop") ~> (ent.pc = "idle")

\* The calls return when the delay is not 0 or the trajectory does not loop.
UpdateTerminatesUnlessZeroDelayLoop ==
  /\ [](obs.idle_call => ~obs.stepped)
  /\ (ent.pc = "loop" /\ ~(ent.delay = 0 /\ ent.loop)) ~> (ent.pc = "idle")

\* A call caught up several steps of a looping trajectory and returned.
UpdateCaughtUp ==
  ent.pc = "idle" /\ obs.stepped /\ ent.loop /\ ent.delay > 0 /\ obs.updates > 1

\* C34: a FollowMovement takes one reference at its construction and gives
\* up exactly that one in its life, neither none nor two; its finished flag
\* never goes back to false.
C34_OneReferenceGivenUpOnce ==
  /\ [](obs.unrefs <= 1)
  /\ [](ent.destroyed /\ obs.refs = 1 => obs.unrefs = 1)
  /\ [][ent.finished => ent'.finished]_vars

\* The movement gives up no more than it took, and exactly what it took once
\* it has seen the entity being removed; finished never goes back to false.
FollowReferenceGivenUpAtMostOnce ==
  /\ [](obs.unrefs <= obs.refs /\ obs.refs <= 1)
  /\ [](ent.finished /\ ent.being_removed /\ ent.entity_followed = NoEntity => obs.unrefs = obs.refs)
  /\ [](ent.entity_followed = NoEntity => ent.refcount = 1)
  /\ [][ent.finished => ent'.finished]_vars

\* A movement was destroyed while it still held its reference.
FollowDestroyedWithReference ==
  ent.destroyed /\ ent.entity_followed # NoEntity /\ obs.unrefs = 0 /\ ent.refcount = 2

\* C35: the treasure of a pickable is given to the player (give_to_player
\* or start_treasure) at most once, and only while can_be_picked is true, no
\* dialog is enabled and the state of the hero allows to pick the treasure.
C35_TreasureGivenAtMostOnce ==
  /\ ent.started + ent.given <= 1
  /\ obs.allowed
  /\ ent.started + ent.given = 1 <=> ent.given_to_player
  /\ ent.given_to_player <=> obs.by # "none"

\* The treasure was given, and the hero then touched the pickable again
\* with everything allowing to pick it.
C35_Witness ==
  ent.started + ent.given = 1 /\ obs.after_gift

\* The treasure was given when a boomerang or a hookshot dropped it.
C35_WitnessDropped ==
  ent.given = 1 /\ obs.by = "drop"

\* C36: an entity that has activated the crystal does not activate it again
\* before next_possible_hit_date, whatever other entities activated it in
\* between; an entity that has not activated it since the delay last ran out
\* activates it at once.
C36_NoSecondActivationInDelay ==
  ~obs.again /\ ~obs.refused

\* The entity that activated the crystal last does not activate it again
\* before next_possible_hit_date, and an entity that has not activated it
\* since the delay last ran out activates it at once.
LatestActivatorWaits ==
  ~obs.again_latest /\ ~obs.refused

\* An entity was refused inside the delay, and then activated the crystal
\* once the delay had run out.
CrystalDelayRanOut ==
  obs.waited /\ obs.activations = 3 /\ Len(ent.entities_activating) = 1 /\ obs.updates >= 3

\* C37: after timer:stop() on a registered timer, its callback is never
\* called again; the timer leaves the table and its reference is released
\* exactly once, at the next update_timers() and not before.
C37_StoppedTimerNeverFires ==
  \A id \in Timers :
    LET t == ent.timers[id] IN
      /\ t.stopped => ~t.called_after_stop /\ t.callback_ref = LUA_REFNIL
      /\ t.unrefs <= 1 /\ t.destroyed <= 1
      /\ t.in_table => t.unrefs = 0
      /\ t.stopped /\ t.updated_after_stop => ~t.in_table /\ t.unrefs = 1
      /\ t.stopped /\ ~t.updated_after_stop => t.in_table

\* A timer was stopped before it expired and update_timers() then ran past
\* its expiration date.
C37_Witness ==
  \E id \in Timers :
    LET t == ent.timers[id] IN
      /\ t.stopped /\ ~t.stopped_all /\ t.updated_after_stop /\ ~t.finished
      /\ t.duration > 0 /\ System_now > t.expiration_date

\* A timer was stopped by its own callback, inside update_timers().
C37_WitnessStoppedInCallback ==
  \E id \in Timers :
    LET t == ent.timers[id] IN
      t.stopped /\ t.finished /\ t.duration > 0 /\ t.unrefs = 1

\* C38: after sol.timer.stop_all(context), no timer of the context calls its
\* callback; at the end of the next update_timers() none of them is in the
\* table and the reference of each has been released exactly once.
C38_StopAllUnregisters ==
  \A id \in Timers :
    LET t == ent.timers[id] IN
      /\ t.stopped_all => ~t.called_after_stop /\ t.callback_ref = LUA_REFNIL
      /\ t.unrefs <= 1
      /\ t.stopped_all /\ t.updated_after_stop_all => ~t.in_table /\ t.unrefs = 1

\* After sol.timer.stop_all(context), no timer of the context calls its
\* callback, and no reference is released twice.
StopAllSilences ==
  \A id \in Timers :
    LET t == ent.timers[id] IN
      /\ t.stopped_all => ~t.called_after_stop /\ t.callback_ref = LUA_REFNIL
      /\ t.unrefs <= 1 /\ t.destroyed <= 1

\* Both timers were stopped by one stop_all, and update_timers() ran.
StopAllOfTwoTimers ==
  \A id \in Timers :
    LET t == ent.timers[id] IN
      t.stopped_all /\ ~t.stopped /\ t.updated_after_stop_all /\ ~t.finished

\* C39: an event sent to the menus of a context is offered from the topmost
\* menu to the bottom one, to the children of a menu before the menu, and to
\* no menu after the first callback that returns true; a menu started with
\* on_top is placed above all the menus already started, and below them
\* otherwise.
C39_EventOfferedTopDown ==
  obs.in_order /\ obs.all_offered /\ obs.placed

\* An event went through a child menu and two more menus before the last
\* one handled it.
C39_Witness ==
  obs.kind = "input" /\ obs.offered = 3 /\ obs.handled /\ obs.nested

\* A menu was started below the menus already started.
C39_WitnessBelow ==
  obs.kind = "start" /\ Len(ent.menus) = 3 /\ ent.menus[1].recently_added
    /\ ent.menus[1].context = MainContext

\* C40: stopping a menu calls its on_finished exactly once, after its
\* children menus were stopped; its entry is only marked, with a nil ref and
\* a null context, and erased at the next update_menus(); a marked entry
\* receives no callback; a menu started by an on_finished callback during a
\* pass of remove_menus is not stopped by that pass.
C40_MenuStoppedOnce ==
  /\ \A id \in Menus : ent.finished[id] <= 1
  /\ \A id \in ent.started : MenuStopped(ent, id) <=> ent.finished[id] = 1
  /\ ent.children_stopped
  /\ \A i \in 1..Len(ent.menus) :
       ent.menus[i].ref = LUA_REFNIL <=> ent.menus[i].context = NoContext
  /\ obs.kept
  /\ obs.kind = "update_menus" => \A i \in 1..Len(ent.menus) : ent.menus[i].ref # LUA_REFNIL
  /\ ~obs.called_stopped
  /\ ~obs.pass_stopped

\* The same, but for the callback of a menu that one of its children has
\* just stopped, and for the menu that an on_finished callback starts
\* during a pass of remove_menus.
MenuStoppedOnceAndMarked ==
  /\ \A id \in Menus : ent.finished[id] <= 1
  /\ \A id \in ent.started : MenuStopped(ent, id) <=> ent.finished[id] = 1
  /\ ent.children_stopped
  /\ \A i \in 1..Len(ent.menus) :
       ent.menus[i].ref = LUA_REFNIL <=> ent.menus[i].context = NoContext
  /\ obs.kept
  /\ obs.kind = "update_menus" => \A i \in 1..Len(ent.menus) : ent.menus[i].ref # LUA_REFNIL
  /\ obs.kind = "update" => ~obs.called_stopped

\* A pass of remove_menus stopped a menu and its child, and left alone the
\* menu that an on_finished callback started.
MenuStartedInPassKept ==
  /\ obs.kind = "stop_all" /\ obs.pass_started /\ ~obs.pass_stopped /\ obs.nested
  /\ \E i \in 1..Len(ent.menus) : ent.menus[i].recently_added

\* C5: a suspension at date s ended at date r moves each stored date
\* (end_date of BackToSolidGroundState, next_move_date of a pixel movement
\* that is not finished) by exactly D = r - s, for every s and D, s = 0 and
\* D = 0 included.
C5_SuspensionRoundTrip ==
  obs.resumed =>
    /\ ent.end_date = UAdd(obs.end_date, obs.D)
    /\ ~ent.movement.finished =>
         ent.movement.next_move_date = UAdd(obs.next_move_date, obs.D)

\* The round trip holds for the suspensions that start at a date other than 0.
RoundTripAfterDateZero ==
  obs.resumed /\ obs.s # 0 =>
    /\ ent.end_date = UAdd(obs.end_date, obs.D)
    /\ ent.movement.next_move_date = UAdd(obs.next_move_date, obs.D)

\* C6: with the sound of the hookshot due in 200 ms when the game is suspended,
\* and the game resumed 500 ms later, the sound is played 200 ms after the
\* resume, not at the first update after it.
C6_SoundAfterPause ==
  /\ hook.fired
  /\ hook.paused = 1
  /\ hook.left = SoundDelay
  /\ USub(hook.r, hook.s) = PauseDuration
  => hook.fired_at = UAdd(hook.r, SoundDelay)

\* The hand-offs of the last operation by a lifting or jumping state.
Handoffs(policy) ==
  {i \in DOMAIN handoffs : /\ handoffs[i].policy = policy
                           /\ handoffs[i].out_kind \in {"lifting", "jumping"}
                           /\ ~handoffs[i].aborted}

\* C7: when a lifting or jumping state that holds an item is stopped for a
\* successor whose policy is KEEP, the successor holds one reference to the
\* item, the pointer of the outgoing state is null, and stop() released the
\* one reference of the outgoing state: no reference is lost or duplicated.
C7_KeepHandsOver ==
  \A i \in Handoffs(BEHAVIOR_KEEP) :
    LET h == handoffs[i] IN
    /\ h.holders = {h.next}
    /\ h.out_ptr = NULL
    /\ h.refs_after = h.refs_before - 1

\* C8: when a lifting or jumping state that holds an item is stopped for a
\* successor whose policy is THROW, after stop() the item is thrown and in the
\* map's entity list, the pointer of the outgoing state is null and no state
\* holds the item.
C8_ThrowReleasesToMap ==
  \A i \in Handoffs(BEHAVIOR_THROW) :
    LET h == handoffs[i] IN
    /\ h.thrown
    /\ h.in_map
    /\ h.out_ptr = NULL
    /\ h.holders = {}

\* A lifting state was stopped for a state whose policy is THROW.
C8_Witness ==
  \E i \in Handoffs(BEHAVIOR_THROW) :
    /\ handoffs[i].out_kind = "lifting"
    /\ handoffs[i].being_lifted
    /\ map.has_item /\ item.thrown

\* A jumping state that carried an item was stopped for a state whose policy
\* is THROW.
C8_WitnessJumping ==
  \E i \in Handoffs(BEHAVIOR_THROW) :
    /\ handoffs[i].out_kind = "jumping"
    /\ map.has_item /\ item.thrown

\* C9: an item of reference count 1 has count 2 once the lifting state has
\* started; when the lifting state is stopped before the end of the lift for a
\* successor whose policy is THROW, after stop() the item is in the map's
\* entity list and its count is 1 again.
C9_ThrowRestoresCount ==
  /\ (/\ insts[hero.state].kind = "lifting"
      /\ insts[hero.state].item = ITEM
      /\ item.external = 1)
     => item.refcount = 2
  /\ \A i \in Handoffs(BEHAVIOR_THROW) :
       LET h == handoffs[i] IN
       (h.out_kind = "lifting" /\ h.being_lifted /\ h.external = 1 /\ h.refs_before = 2)
         => h.in_map /\ h.refs_after = 1

\* C10: when a lifting or jumping state that holds an item is stopped for a
\* successor whose policy is DESTROY, after stop() the pointer of the outgoing
\* state is null, its reference is released, the item is not in the map's
\* entity list and no state holds it.
C10_DestroyReleases ==
  \A i \in Handoffs(BEHAVIOR_DESTROY) :
    LET h == handoffs[i] IN
    /\ h.out_ptr = NULL
    /\ h.refs_after = h.refs_before - 1
    /\ ~h.in_map
    /\ ~h.thrown
    /\ h.holders = {}

\* A jumping state that carried an item was stopped for the falling state.
C10_Witness ==
  \E i \in Handoffs(BEHAVIOR_DESTROY) :
    /\ handoffs[i].out_kind = "jumping"
    /\ handoffs[i].next_kind = "falling"
    /\ handoffs[i].refs_after = handoffs[i].refs_before - 1
    /\ insts[hero.state].kind = "falling"
    /\ ~map.has_item

\* A lifting state was stopped for the falling state, and the item, which
\* nobody else held, was deleted.
C10_WitnessLifting ==
  \E i \in Handoffs(BEHAVIOR_DESTROY) :
    /\ handoffs[i].out_kind = "lifting"
    /\ item.deleted

====
